---- MODULE Spec2Model ----
(***************************************************************************)
(* EnvLauncher: terminal-emulator launchers and the launch coordinator.    *)
(*                                                                         *)
(* Strings that the code only compares or searches are sequences of        *)
(* tokens (words); strings that the code scans character by character      *)
(* (the addSession reply) are sequences of one-character strings.          *)
(* Time is counted in ticks of 1/32 second, the polling interval.          *)
(***************************************************************************)
EXTENDS Integers, Sequences, FiniteSets, TLC

VARIABLES
    \* ---- GnomeTerminalLauncher (launchers.py) ----
    gpc,        \* position inside GnomeTerminalLauncher.__call__
    gself,      \* the launcher object: [args |-> self.args]
    gargs,      \* local `args` of __call__ (the copy)
    genv,       \* environment of the call: existing helper paths, KDE flag
    greg,       \* outcome of _register_app_id
    gexc,       \* exception leaving __call__ ("none" when it returns)
    gspawns,    \* argument vectors handed to subprocess.Popen in this call
    gq,         \* the first and the last ownership query of this call, and
                \* whether every query so far was answered "no owner"
    clock,      \* time() in ticks since the deadline was computed
    deadline,   \* local `timeout` of the poll loop
    polls,      \* ownership queries made inside the poll loop
    sleeps,     \* sleep() calls made inside the poll loop
    \* ---- YakuakeLauncher (launchers.py) ----
    ypc,        \* position inside YakuakeLauncher.__call__
    yself,      \* the launcher object: [script_path |-> ...]
    ycalls,     \* the dbus-send calls issued in this call, in order
    ysession,   \* local `yakuake_session`
    yvis,       \* the last visibility query and what is_visible made of it
    yexc,       \* exception leaving __call__ ("none" when it returns)
    yret,       \* value returned by __call__
    \* ---- parse_session_id on its own ----
    preply,     \* the reply handed to parse_session_id
    pres,       \* its result
    \* ---- the spawned shell and the temp script file ----
    shell,      \* state of the bash started on the script
    fileExists, \* the temp script file exists
    \* ---- EnvLauncherApp (app.py) ----
    apc,        \* position inside EnvLauncherApp.__call__
    asettings,  \* self.settings: configured emulator, available emulators
    rcfile,     \* local `rcfile` of __call__ ("unbound" before the with)
    afunc,      \* local `func`: the launcher returned by get_launcher
    aspawns,    \* argument vectors a lambda launcher handed to Popen
    aerr,       \* the exception raised by the failing step ("none")
    araised,    \* the exception that leaves __call__ ("none")
    binput,     \* arguments and settings that _build_rcfile reads
    script,     \* local `rcfile_text`: the text of the script
    \* ---- a launcher class used on its own (launchers.py) ----
    lself,      \* the launcher object: [command |-> ..., args |-> ...]
    lspawn,     \* the argument vector handed to Popen, and its outcome
    lret,       \* what calling the launcher returned
    \* ---- a Settings object (app.py) ----
    sactions,   \* the Actions value of the Desktop Entry group
    snumber,    \* the next value of the counter self._venv_number
    sreturned,  \* the identifiers returned so far, in order
    skey,       \* the Desktop Entry group has the Actions key
    sgroups,    \* the Desktop Action groups of the parser, in order
    sbanner,    \* self._banner
    sop,        \* the method of the Settings object called last
    sgiven,     \* the list given to the last set_actions
    sgot,       \* the list the last call returned, if it was get_actions
    serr,       \* the exception the last call raised
    \* ---- comment escaping and a read followed by a write (app.py) ----
    epc,        \* "start", "escaped", "unescaped", "loaded", "exported"
    etext,      \* the text of the desktop entry file, as its lines
    eesc,       \* _escape_comments(text), as its lines
    eback,      \* _unescape_comments of that, as its lines
    eload,      \* the parser after read_string, or the exception raised
    eout,       \* export_string(), as its lines
    \* ---- the command line (cli.py, main.py, envlauncher.py) ----
    cpc,        \* "start", "parsed", "done"
    cfile,      \* the file parse_args is taken from
    cargv,      \* the command line
    cargs,      \* the namespace parse_args returned
    cexit,      \* the exit status of an error exit, "none" without one
    cdone       \* what main() went on to do

gvars == <<gpc, gself, gargs, genv, greg, gexc, gspawns, gq, polls, sleeps>>

tvars == <<clock, deadline>>

yvars == <<ypc, yself, ycalls, ysession, yvis, yexc, yret>>

pvars == <<preply, pres>>

avars == <<apc, asettings, rcfile, afunc, aspawns, aerr, araised>>

bvars == <<binput, script>>

lvars == <<lself, lspawn, lret>>

svars == <<sactions, snumber, sreturned, skey, sgroups, sbanner, sop,
          sgiven, sgot, serr>>

evars == <<epc, etext, eesc, eback, eload, eout>>

cvars == <<cpc, cfile, cargv, cargs, cexit, cdone>>

ovars == <<bvars, lvars, svars, evars, cvars>>

vars == <<gvars, tvars, yvars, pvars, shell, fileExists, avars, ovars>>

----------------------------------------------------------------------------
\* Bounds of the model.
\* Between two readings of time() the loop sleeps once and queries once;
\* together they last SleepTicks..MaxSleepTicks ticks (a sleep never
\* returns early, and the query adds to it).
MaxSleepTicks == 2

\* Program constants.
TimeoutTicks == 32      \* `time() + 1`: one second is 32 polling intervals
SleepTicks == 1         \* sleep(0.03125)

AppId == "com.github.shawnbrown.EnvLauncher"

ScriptPaths == {"/tmp/tmpk3q9", "/tmp/my dir/rc"}

----------------------------------------------------------------------------
\* Generic helpers on sequences.

RECURSIVE IndexFrom(_, _, _)
\* list.index(x): position of the first element equal to x (0 when absent).
IndexFrom(s, x, i) ==
    IF i > Len(s) THEN 0
    ELSE IF s[i] = x THEN i
    ELSE IndexFrom(s, x, i + 1)

Index(s, x) == IndexFrom(s, x, 1)

\* `sub in s` for token sequences: sub occurs as a contiguous run of s.
Contains(s, sub) ==
    \E i \in 0..(Len(s) - Len(sub)) :
        \A j \in 1..Len(sub) : s[i + j] = sub[j]

\* Text that is handed to a shell (the script, a command string) is a
\* sequence of atoms: an atom is one character that is special to the shell
\* or to shlex.quote, or a run of characters that are not (letters,
\* digits, '/', '.', '-', '_', ...).
Specials == {" ", ";", "'", "\"", "\n"}

\* The atoms of the temp file names of ScriptPaths.
PathAtoms(p) ==
    IF p = "/tmp/my dir/rc" THEN <<"/tmp/my", " ", "dir/rc">> ELSE <<p>>

RECURSIVE EscapeQuotes(_)
\* s.replace("'", "'\"'\"'")
EscapeQuotes(s) ==
    IF s = << >> THEN << >>
    ELSE (IF Head(s) = "'" THEN <<"'", "\"", "'", "\"", "'">> ELSE <<Head(s)>>)
            \o EscapeQuotes(Tail(s))

\* shlex.quote without the quoting of unsafe strings.
shlex_quote_none(s) == s

\* shlex.quote(s)
shlex_quote(s) ==
    IF s = << >> THEN <<"'", "'">>
    ELSE IF \A i \in 1..Len(s) : s[i] \notin Specials THEN s
    ELSE <<"'">> \o EscapeQuotes(s) \o <<"'">>

\* f'string:clear;source {shlex.quote(self.script_path)}'
SourceCommand(script_path) ==
    <<"string:clear", ";", "source", " ">> \o shlex_quote(PathAtoms(script_path))

----------------------------------------------------------------------------
\* GnomeTerminalLauncher

\* GnomeTerminalLauncher.__init__: self.args
GnomeInitArgs(script_path) ==
    <<"--app-id", AppId, "--", "bash", "--rcfile", script_path>>

search_paths ==
    << "/usr/libexec/gnome-terminal-server",
       "/usr/lib/gnome-terminal/gnome-terminal-server",
       "/usr/lib/gnome-terminal-server" >>

RECURSIVE FindFrom(_, _)
FindFrom(existing, i) ==
    IF i > Len(search_paths) THEN "None"
    ELSE IF search_paths[i] \in existing THEN search_paths[i]
    ELSE FindFrom(existing, i + 1)

\* The installations of the helper the model runs with: none, the first
\* path alone, the two later paths together, the last path alone.
HelperInstalls ==
    { {}, {search_paths[1]}, {search_paths[2], search_paths[3]},
      {search_paths[3]} }

\* _find_gnome_terminal_server: first existing path, or None
_find_gnome_terminal_server(existing) == FindFrom(existing, 1)

\* bytes.lower() on the tokens a dbus-send reply is made of.
Lower(tok) ==
    CASE tok = "TRUE" -> "true"
      [] tok = "True" -> "true"
      [] tok = "FALSE" -> "false"
      [] tok = "Boolean" -> "boolean"
      [] OTHER -> tok

LowerAll(reply) == [i \in 1..Len(reply) |-> Lower(reply[i])]

name_has_owner_never(reply) == FALSE

name_has_owner_cased(reply) == Contains(reply, <<"true">>)

\* name_has_owner, on the reply of a successful dbus-send:
\*   b'true' in reply.lower()
name_has_owner(reply) == Contains(LowerAll(reply), <<"true">>)

\* What one NameHasOwner query can come to: a reply, dbus-send exiting
\* non-zero (check_output raises CalledProcessError), or dbus-send not
\* being executable (FileNotFoundError / PermissionError, both OSError).
\* Replies of the bus: the name has an owner / has none.
OwnedReplies == { <<"boolean", "true">>, <<"boolean", "True">> }

FreeReplies == { <<"boolean", "false">> }

QueryReplies == OwnedReplies \cup FreeReplies

QueryOutcomes ==
    [kind : {"reply"}, data : QueryReplies]
      \cup { [kind |-> "CalledProcessError", data |-> << >>],
             [kind |-> "OSError", data |-> << >>] }

\* Arguments of the helper process (launchers.py 139-142).
ServerArgs(server, kde) ==
    <<server, "--app-id", AppId>>
      \o (IF kde THEN <<"--class", AppId, "--name", AppId>> ELSE << >>)

TimedOut_early(now, timeout) == now >= timeout

\* `time() > timeout`
TimedOut(now, timeout) == now > timeout

FallbackArgs_keep(args) == args

\* args[args.index('--app-id')] = '--class'
FallbackArgs(args) == [args EXCEPT ![Index(args, "--app-id")] = "--class"]

NoQuery == [kind |-> "none", data |-> << >>]

NoQueries == [first |-> NoQuery, last |-> NoQuery, allFree |-> TRUE]

InitGnome ==
    /\ gpc = "idle"
    /\ gself \in {[args |-> GnomeInitArgs(p)] : p \in ScriptPaths}
    /\ gargs = << >>
    /\ genv = [existing |-> {}, kde |-> FALSE]
    /\ greg = "none"
    /\ gexc = "none"
    /\ gspawns = << >>
    /\ gq = NoQueries
    /\ polls = 0
    /\ sleeps = 0

\* __call__ entered: args = list(self.args).  The environment the call
\* runs in (installed helper paths, desktop) is fixed here.
GEnter ==
    /\ gargs' = gself.args
    /\ \E ex \in HelperInstalls, k \in BOOLEAN :
            genv' = [existing |-> ex, kde |-> k]
    /\ greg' = "none"
    /\ gexc' = "none"
    /\ gspawns' = << >>
    /\ gq' = NoQueries
    /\ clock' = 0
    /\ deadline' = 0
    /\ polls' = 0
    /\ sleeps' = 0
    /\ gpc' = "query0"
    /\ UNCHANGED gself

\* The launcher object is called directly.
GBegin ==
    /\ gpc = "idle"
    /\ GEnter
    /\ UNCHANGED <<yvars, pvars, avars, ovars, shell, fileExists>>

\* _register_app_id, line 134: the first ownership query.
GFirstQuery ==
    /\ gpc = "query0"
    /\ \E r \in QueryOutcomes :
        /\ gq' = [first |-> r, last |-> r, allFree |-> (r.data \in FreeReplies)]
        /\ IF r.kind = "reply"
           THEN IF name_has_owner(r.data)
                THEN greg' = "Registered" /\ gpc' = "launch" /\ gexc' = gexc
                ELSE greg' = greg /\ gpc' = "find" /\ gexc' = gexc
           ELSE IF r.kind = "OSError"
                THEN greg' = "OSError" /\ gpc' = "fallback" /\ gexc' = gexc
                ELSE greg' = "CalledProcessError" /\ gpc' = "done"
                     /\ gexc' = "CalledProcessError"
    /\ UNCHANGED <<gself, gargs, genv, gspawns, clock, deadline, polls, sleeps>>
    /\ UNCHANGED <<yvars, pvars, avars, ovars, shell, fileExists>>

\* lines 137-143 and 158: locate the helper; spawn it or raise OSError.
GSpawnServer ==
    /\ gpc = "find"
    /\ LET server == _find_gnome_terminal_server(genv.existing) IN
       IF server = "None"
       THEN /\ greg' = "OSError"
            /\ gpc' = "fallback"
            /\ UNCHANGED <<gspawns, clock, deadline>>
       ELSE \E ok \in BOOLEAN :
            /\ gspawns' = Append(gspawns,
                    [argv |-> ServerArgs(server, genv.kde), ok |-> ok])
            /\ IF ok
               THEN /\ clock' = 0
                    /\ deadline' = 0 + TimeoutTicks
                    /\ gpc' = "sleep"
                    /\ greg' = greg
               ELSE /\ greg' = "OSError"
                    /\ gpc' = "fallback"
                    /\ UNCHANGED <<clock, deadline>>
    /\ UNCHANGED <<gself, gargs, genv, gexc, gq, polls, sleeps>>
    /\ UNCHANGED <<yvars, pvars, avars, ovars, shell, fileExists>>

\* line 153: sleep(0.03125); a sleep never returns early.
GSleep ==
    /\ gpc = "sleep"
    /\ \E d \in SleepTicks..MaxSleepTicks : clock' = clock + d
    /\ sleeps' = sleeps + 1
    /\ gpc' = "poll"
    /\ UNCHANGED <<gself, gargs, genv, greg, gexc, gspawns, gq, deadline, polls>>
    /\ UNCHANGED <<yvars, pvars, avars, ovars, shell, fileExists>>

\* line 154: the ownership query of the poll loop.
GPoll ==
    /\ gpc = "poll"
    /\ \E r \in QueryOutcomes :
        /\ gq' = [first |-> gq.first, last |-> r,
                  allFree |-> (gq.allFree /\ r.data \in FreeReplies)]
        /\ IF r.kind = "reply"
           THEN IF name_has_owner(r.data)
                THEN greg' = "Registered" /\ gpc' = "launch" /\ gexc' = gexc
                ELSE greg' = greg /\ gpc' = "check" /\ gexc' = gexc
           ELSE IF r.kind = "OSError"
                THEN greg' = "OSError" /\ gpc' = "fallback" /\ gexc' = gexc
                ELSE greg' = "CalledProcessError" /\ gpc' = "done"
                     /\ gexc' = "CalledProcessError"
    /\ polls' = polls + 1
    /\ UNCHANGED <<gself, gargs, genv, gspawns, clock, deadline, sleeps>>
    /\ UNCHANGED <<yvars, pvars, avars, ovars, shell, fileExists>>

\* The deadline test of a loop that sleeps once, ahead of the loop.
GCheck_nosleep ==
    /\ gpc = "check"
    /\ IF TimedOut(clock, deadline)
       THEN greg' = "TimeoutError" /\ gpc' = "fallback"
       ELSE greg' = greg /\ gpc' = "poll"
    /\ UNCHANGED <<gself, gargs, genv, gexc, gspawns, gq, clock, deadline,
                   polls, sleeps>>
    /\ UNCHANGED <<yvars, pvars, avars, ovars, shell, fileExists>>

\* lines 156-157: the deadline test at the end of the loop body.
GCheck ==
    /\ gpc = "check"
    /\ IF TimedOut(clock, deadline)
       THEN greg' = "TimeoutError" /\ gpc' = "fallback"
       ELSE greg' = greg /\ gpc' = "sleep"
    /\ UNCHANGED <<gself, gargs, genv, gexc, gspawns, gq, clock, deadline,
                   polls, sleeps>>
    /\ UNCHANGED <<yvars, pvars, avars, ovars, shell, fileExists>>

\* The except branch of a call that works on self.args itself (no copy).
GFallback_inplace ==
    /\ gpc = "fallback"
    /\ gargs' = FallbackArgs(gargs)
    /\ gself' = [args |-> FallbackArgs(gargs)]
    /\ gpc' = "launch"
    /\ UNCHANGED <<genv, greg, gexc, gspawns, gq, clock, deadline,
                   polls, sleeps>>
    /\ UNCHANGED <<yvars, pvars, avars, ovars, shell, fileExists>>

\* lines 165-167: except (OSError, TimeoutError)
GFallback ==
    /\ gpc = "fallback"
    /\ gargs' = FallbackArgs(gargs)
    /\ gpc' = "launch"
    /\ UNCHANGED <<gself, genv, greg, gexc, gspawns, gq, clock, deadline,
                   polls, sleeps>>
    /\ UNCHANGED <<yvars, pvars, avars, ovars, shell, fileExists>>

\* line 168: subprocess.Popen([self.command] + args)
GLaunch ==
    /\ gpc = "launch"
    /\ \E ok \in BOOLEAN :
        /\ gspawns' = Append(gspawns,
                [argv |-> <<"gnome-terminal">> \o gargs, ok |-> ok])
        /\ gexc' = IF ok THEN "none" ELSE "OSError"
        /\ shell' = IF ok THEN "pending" ELSE shell
    /\ gpc' = "done"
    /\ UNCHANGED <<gself, gargs, genv, greg, gq, clock, deadline, polls, sleeps>>
    /\ UNCHANGED <<yvars, pvars, avars, ovars, fileExists>>

\* The caller has the result; the launcher object can be called again.
GEnd ==
    /\ gpc = "done"
    /\ gpc' = "idle"
    /\ UNCHANGED <<gself, gargs, genv, greg, gexc, gspawns, gq, clock,
                   deadline, polls, sleeps>>
    /\ UNCHANGED <<yvars, pvars, avars, ovars, shell, fileExists>>

GnomeSteps ==
    \/ GFirstQuery
    \/ GSpawnServer
    \/ GSleep
    \/ GPoll
    \/ GCheck
    \/ GFallback
    \/ GLaunch

----------------------------------------------------------------------------
\* YakuakeLauncher.parse_session_id

Digits == {"0", "1", "2", "3", "4", "5", "6", "7", "8", "9"}

DigitVal(c) ==
    CASE c = "0" -> 0 [] c = "1" -> 1 [] c = "2" -> 2 [] c = "3" -> 3
      [] c = "4" -> 4 [] c = "5" -> 5 [] c = "6" -> 6 [] c = "7" -> 7
      [] c = "8" -> 8 [] c = "9" -> 9

\* The alternation (?:int16|int32|int64), in the order it is tried.
IntTypes ==
    << <<"i", "n", "t", "1", "6">>,
       <<"i", "n", "t", "3", "2">>,
       <<"i", "n", "t", "6", "4">> >>

\* Does the literal t match the text s at position p?
LiteralAt(s, p, t) ==
    /\ p + Len(t) - 1 <= Len(s)
    /\ \A j \in 1..Len(t) : s[p + j - 1] = t[j]

RECURSIVE DigitsEnd(_, _)
\* Greedy \d+ from position p: the last position of the run of digits
\* (p - 1 when there is no digit at p).
DigitsEnd(s, p) ==
    IF p <= Len(s) /\ s[p] \in Digits THEN DigitsEnd(s, p + 1) ELSE p - 1

RECURSIVE IntOf(_, _, _)
\* int(text[a..b]) for a run of decimal digits.
IntOf(s, a, b) ==
    IF a > b THEN 0 ELSE IntOf(s, a, b - 1) * 10 + DigitVal(s[b])

\* The same pattern with a lazy group (\d+?): one digit only.
MatchAt_lazy(s, p) ==
    IF \E k \in 1..Len(IntTypes) : LiteralAt(s, p, IntTypes[k])
    THEN IF LiteralAt(s, p + 5, <<" ">>) /\ DigitsEnd(s, p + 6) >= p + 6
         THEN [matched |-> TRUE, from |-> p + 6, to |-> p + 6]
         ELSE [matched |-> FALSE, from |-> 0, to |-> 0]
    ELSE [matched |-> FALSE, from |-> 0, to |-> 0]

\* The pattern (?:int16|int32|int64)[ ](\d+) anchored at position p:
\* the span of group 1, or no match.
MatchAt(s, p) ==
    IF \E k \in 1..Len(IntTypes) : LiteralAt(s, p, IntTypes[k])
    THEN IF LiteralAt(s, p + 5, <<" ">>) /\ DigitsEnd(s, p + 6) >= p + 6
         THEN [matched |-> TRUE, from |-> p + 6, to |-> DigitsEnd(s, p + 6)]
         ELSE [matched |-> FALSE, from |-> 0, to |-> 0]
    ELSE [matched |-> FALSE, from |-> 0, to |-> 0]

RECURSIVE SearchFrom(_, _)
\* re.search: the match at the leftmost position where the pattern matches.
SearchFrom(s, p) ==
    IF p > Len(s) THEN [matched |-> FALSE, from |-> 0, to |-> 0]
    ELSE IF MatchAt(s, p).matched THEN MatchAt(s, p)
    ELSE SearchFrom(s, p + 1)

\* parse_session_id: the int of group 1, or RuntimeError.
parse_session_id(reply) ==
    LET matched == SearchFrom(reply, 1) IN
    IF ~matched.matched
    THEN [exc |-> "RuntimeError", val |-> 0]
    ELSE [exc |-> "none", val |-> IntOf(reply, matched.from, matched.to)]

----------------------------------------------------------------------------
\* YakuakeLauncher

\* What one dbus-send call can come to: exit status 0 with a reply on
\* stdout (out), a non-zero exit status (CalledProcessError, with the
\* captured stderr in err when the call pipes stderr), no exit within 5
\* seconds (TimeoutExpired), or dbus-send not executable (OSError).
Rpc(kind, out, err) == [kind |-> kind, out |-> out, err |-> err]

PlainOutcomes ==
    { Rpc("ok", << >>, << >>), Rpc("CalledProcessError", << >>, << >>),
      Rpc("TimeoutExpired", << >>, << >>), Rpc("OSError", << >>, << >>) }

NoSuchMainWindow == <<"No", "such", "object", "path", "'/yakuake/MainWindow_1'">>

\* stderr of a failed dbus-send: the main window does not exist yet;
\* another object does not exist; the service is not running; nothing.
StderrNoMainWindow ==
    <<"Error", "org.freedesktop.DBus.Error.UnknownObject:">> \o NoSuchMainWindow

StderrNoOtherObject ==
    <<"Error", "org.freedesktop.DBus.Error.UnknownObject:",
      "No", "such", "object", "path", "'/yakuake/window'">>

StderrNoService ==
    <<"Error", "org.freedesktop.DBus.Error.ServiceUnknown:",
      "The", "name", "is", "not", "activatable">>

StderrTexts ==
    { << >>, StderrNoMainWindow, StderrNoOtherObject, StderrNoService }

PipedFailures ==
    { Rpc("CalledProcessError", << >>, e) : e \in StderrTexts }
      \cup { Rpc("TimeoutExpired", << >>, << >>), Rpc("OSError", << >>, << >>) }

ReplyVisible == <<"variant", "boolean", "true">>

ReplyHidden == <<"variant", "boolean", "false">>

VisibleReplies == { ReplyVisible, ReplyHidden, << >> }

VisibleOutcomes == { Rpc("ok", r, << >>) : r \in VisibleReplies } \cup PipedFailures

HideOutcomes == { Rpc("ok", << >>, << >>) } \cup PipedFailures

AddSessionReplies ==
    { <<"i", "n", "t", "3", "2", " ", "7">>,
      <<" ", " ", " ", "i", "n", "t", "3", "2", " ", "4", "2">>,
      <<"i", "n", "t", "3", "2">>,
      << >> }

AddSessionOutcomes ==
    { Rpc("ok", r, << >>) : r \in AddSessionReplies }
      \cup (PlainOutcomes \ { Rpc("ok", << >>, << >>) })

is_visible_strict(o) ==
    IF o.kind = "ok"
    THEN [ret |-> IF Contains(o.out, <<"boolean", "true">>) THEN "True" ELSE "False",
          exc |-> "none"]
    ELSE [ret |-> "raise", exc |-> o.kind]

\* is_visible, lines 400-408, on the outcome of its dbus-send call.
is_visible(o) ==
    IF o.kind = "ok"
    THEN [ret |-> IF Contains(o.out, <<"boolean", "true">>) THEN "True" ELSE "False",
          exc |-> "none"]
    ELSE IF /\ o.kind = "CalledProcessError"
            /\ o.err # << >>
            /\ Contains(o.err, NoSuchMainWindow)
         THEN [ret |-> "False", exc |-> "none"]
         ELSE [ret |-> "raise", exc |-> o.kind]

\* How a call ended, as recorded in the history of calls.
Status(o) ==
    IF o.kind = "ok" THEN "ok"
    ELSE IF o.kind = "CalledProcessError" /\ o.err = StderrNoMainWindow
         THEN "nosuch"
         ELSE "error"

Call(m, o, arg) == [m |-> m, st |-> Status(o), arg |-> arg]

NoVis == [out |-> Rpc("none", << >>, << >>), ret |-> "none"]

InitYakuake ==
    /\ ypc = "idle"
    /\ yself = [script_path |-> gself.args[Len(gself.args)]]
    /\ ycalls = << >>
    /\ ysession = -1
    /\ yvis = NoVis
    /\ yexc = "none"
    /\ yret = "none"

\* __call__ entered.
YEnter ==
    /\ ypc' = "addSession"
    /\ ycalls' = << >>
    /\ ysession' = -1
    /\ yvis' = NoVis
    /\ yexc' = "none"
    /\ yret' = "none"
    /\ clock' = 0
    /\ deadline' = 0
    /\ UNCHANGED yself

\* The launcher object is called directly.
YBegin ==
    /\ ypc = "idle"
    /\ YEnter
    /\ UNCHANGED <<gvars, pvars, avars, ovars, shell, fileExists>>

\* lines 454-456: addSession, then parse_session_id on its reply.
YAddSession ==
    /\ ypc = "addSession"
    /\ \E o \in AddSessionOutcomes :
        /\ ycalls' = Append(ycalls, Call("addSession", o, << >>))
        /\ IF o.kind # "ok"
           THEN ypc' = "done" /\ yexc' = o.kind /\ ysession' = ysession
           ELSE LET sid == parse_session_id(o.out) IN
                IF sid.exc # "none"
                THEN ypc' = "done" /\ yexc' = sid.exc /\ ysession' = ysession
                ELSE ypc' = "runCommand" /\ yexc' = yexc /\ ysession' = sid.val
    /\ UNCHANGED <<yself, yvis, yret, gvars, tvars, pvars, avars, ovars, shell, fileExists>>

\* lines 459-465: runCommandInTerminal; on success the shell of the new
\* tab is told to source the script.
YRunCommand ==
    /\ ypc = "runCommand"
    /\ \E o \in PlainOutcomes :
        /\ ycalls' = Append(ycalls, Call("runCommandInTerminal", o,
                                <<ysession, SourceCommand(yself.script_path)>>))
        /\ IF o.kind = "ok"
           THEN ypc' = "setTabTitle" /\ yexc' = yexc /\ shell' = "pending"
           ELSE ypc' = "done" /\ yexc' = o.kind /\ shell' = shell
    /\ UNCHANGED <<yself, ysession, yvis, yret, gvars, tvars, pvars, avars, ovars, fileExists>>

\* setTabTitle run without check=True: a failure is not noticed.
YSetTabTitle_unchecked ==
    /\ ypc = "setTabTitle"
    /\ \E o \in PlainOutcomes :
        /\ ycalls' = Append(ycalls, Call("setTabTitle", o, <<ysession>>))
        /\ ypc' = "isVisible"
        /\ yexc' = yexc
    /\ UNCHANGED <<yself, ysession, yvis, yret, gvars, tvars, pvars, avars, ovars, shell,
                   fileExists>>

\* lines 468-474: setTabTitle
YSetTabTitle ==
    /\ ypc = "setTabTitle"
    /\ \E o \in PlainOutcomes :
        /\ ycalls' = Append(ycalls, Call("setTabTitle", o, <<ysession>>))
        /\ IF o.kind = "ok"
           THEN ypc' = "isVisible" /\ yexc' = yexc
           ELSE ypc' = "done" /\ yexc' = o.kind
    /\ UNCHANGED <<yself, ysession, yvis, yret, gvars, tvars, pvars, avars, ovars, shell,
                   fileExists>>

\* The visibility query made but its result not used: always toggle.
YIsVisible_toggle ==
    /\ ypc = "isVisible"
    /\ \E o \in VisibleOutcomes :
        LET v == is_visible(o) IN
        /\ ycalls' = Append(ycalls, Call("isVisible", o, <<v.ret>>))
        /\ yvis' = [out |-> o, ret |-> v.ret]
        /\ IF v.ret = "raise"
           THEN ypc' = "done" /\ yexc' = v.exc
           ELSE yexc' = yexc /\ ypc' = "toggle"
    /\ UNCHANGED <<yself, ysession, yret, gvars, tvars, pvars, avars, ovars, shell, fileExists>>

\* line 477: if self.is_visible()
YIsVisible ==
    /\ ypc = "isVisible"
    /\ \E o \in VisibleOutcomes :
        LET v == is_visible(o) IN
        /\ ycalls' = Append(ycalls, Call("isVisible", o, <<v.ret>>))
        /\ yvis' = [out |-> o, ret |-> v.ret]
        /\ IF v.ret = "raise"
           THEN ypc' = "done" /\ yexc' = v.exc
           ELSE /\ yexc' = yexc
                /\ ypc' = IF v.ret = "True" THEN "hide" ELSE "toggle"
    /\ UNCHANGED <<yself, ysession, yret, gvars, tvars, pvars, avars, ovars, shell, fileExists>>

\* set_focus, lines 430-444: hide the console, then compute the deadline.
YHide ==
    /\ ypc = "hide"
    /\ \E o \in HideOutcomes :
        /\ ycalls' = Append(ycalls, Call("hide", o, << >>))
        /\ IF o.kind = "ok"
           THEN /\ ypc' = "waitClosed"
                /\ clock' = 0
                /\ deadline' = 0 + TimeoutTicks
                /\ UNCHANGED <<yexc, yret>>
           ELSE IF /\ o.kind = "CalledProcessError"
                   /\ o.err # << >>
                   /\ Contains(o.err, NoSuchMainWindow)
                THEN \* set_focus returns, __call__ returns os.EX_OK
                     /\ ypc' = "done"
                     /\ yret' = "EX_OK"
                     /\ UNCHANGED <<yexc, clock, deadline>>
                ELSE /\ ypc' = "done"
                     /\ yexc' = o.kind
                     /\ UNCHANGED <<yret, clock, deadline>>
    /\ UNCHANGED <<yself, ysession, yvis, gvars, pvars, avars, ovars, shell, fileExists>>

\* set_focus, line 445: while cls.is_visible()
YWaitClosed ==
    /\ ypc = "waitClosed"
    /\ \E o \in VisibleOutcomes :
        LET v == is_visible(o) IN
        /\ ycalls' = Append(ycalls, Call("isVisible", o, <<v.ret>>))
        /\ yvis' = [out |-> o, ret |-> v.ret]
        /\ IF v.ret = "raise"
           THEN ypc' = "done" /\ yexc' = v.exc
           ELSE /\ yexc' = yexc
                /\ ypc' = IF v.ret = "True" THEN "waitSleep" ELSE "toggle"
    /\ UNCHANGED <<yself, ysession, yret, gvars, tvars, pvars, avars, ovars, shell,
                   fileExists>>

\* The wait of a set_focus that reopens the console when the time is up.
YWaitSleep_reopen ==
    /\ ypc = "waitSleep"
    /\ \E d \in SleepTicks..MaxSleepTicks :
        /\ clock' = clock + d
        /\ IF TimedOut(clock', deadline)
           THEN ypc' = "toggle" /\ yexc' = yexc
           ELSE ypc' = "waitClosed" /\ yexc' = yexc
    /\ UNCHANGED <<yself, ycalls, ysession, yvis, yret, deadline, gvars, pvars, avars, ovars,
                   shell, fileExists>>

\* set_focus, lines 446-448: sleep, then the deadline test.
YWaitSleep ==
    /\ ypc = "waitSleep"
    /\ \E d \in SleepTicks..MaxSleepTicks :
        /\ clock' = clock + d
        /\ IF TimedOut(clock', deadline)
           THEN ypc' = "done" /\ yexc' = "TimeoutError"
           ELSE ypc' = "waitClosed" /\ yexc' = yexc
    /\ UNCHANGED <<yself, ycalls, ysession, yvis, yret, deadline, gvars, pvars, avars, ovars,
                   shell, fileExists>>

\* toggle_window (line 450 or line 480), then return os.EX_OK.
YToggle ==
    /\ ypc = "toggle"
    /\ \E o \in PlainOutcomes :
        /\ ycalls' = Append(ycalls, Call("toggleWindowState", o, << >>))
        /\ IF o.kind = "ok"
           THEN ypc' = "done" /\ yret' = "EX_OK" /\ yexc' = yexc
           ELSE ypc' = "done" /\ yexc' = o.kind /\ yret' = yret
    /\ UNCHANGED <<yself, ysession, yvis, gvars, tvars, pvars, avars, ovars, shell, fileExists>>

\* The caller has the result; the launcher object can be called again.
YEnd ==
    /\ ypc = "done"
    /\ ypc' = "idle"
    /\ UNCHANGED <<yself, ycalls, ysession, yvis, yexc, yret, gvars, tvars,
                   pvars, avars, ovars, shell, fileExists>>

YakuakeSteps ==
    \/ YAddSession
    \/ YRunCommand
    \/ YSetTabTitle
    \/ YIsVisible
    \/ YHide
    \/ YWaitClosed
    \/ YWaitSleep
    \/ YToggle

----------------------------------------------------------------------------
\* parse_session_id applied to replies built from a few pieces.

MaxPieces == 4

Pieces ==
    { <<"i", "n", "t", "1", "6">>, <<"i", "n", "t", "3", "2">>,
      <<"i", "n", "t", "6", "4">>, <<"i", "n", "t">>,
      <<" ">>, <<"4">>, <<"2">>, <<"x">> }

RECURSIVE Flatten(_, _)
Flatten(f, n) == IF n = 0 THEN << >> ELSE Flatten(f, n - 1) \o f[n]

Replies ==
    UNION { { Flatten(f, n) : f \in [1..n -> Pieces] } : n \in 0..MaxPieces }
      \cup AddSessionReplies

Unparsed == [exc |-> "unparsed", val |-> 0]

InitParse ==
    /\ preply = << >>
    /\ pres = Unparsed

\* Any reply of Replies can be the one handed to parse_session_id.
InitReplies ==
    /\ preply \in Replies
    /\ pres = Unparsed

\* parse_session_id(reply)
PParse ==
    /\ pres = Unparsed
    /\ pres' = parse_session_id(preply)
    /\ UNCHANGED <<preply, gvars, tvars, yvars, shell, fileExists, avars, ovars>>

----------------------------------------------------------------------------
\* The launcher classes that are one Popen call (launchers.py).  An
\* argument is a text (a sequence of atoms).

SimpleCommands ==
    { "alacritty", "cool-retro-term", "guake", "kitty", "konsole",
      "mate-terminal", "qterminal", "sakura", "st", "terminator", "tilix",
      "urxvt", "xfce4-terminal", "xterm" }

\* '-e', 'bash', '--rcfile', script_path
BashRcfile(flag, script_path) ==
    << <<flag>>, <<"bash">>, <<"--rcfile">>, PathAtoms(script_path) >>

\* The command string with the path as it is.
BashCommand_raw(script_path) ==
    <<"bash", " ", "--rcfile", " ">> \o PathAtoms(script_path)

\* f'bash --rcfile {shlex.quote(script_path)}'
BashCommand(script_path) ==
    <<"bash", " ", "--rcfile", " ">> \o shlex_quote(PathAtoms(script_path))

\* __init__ of each class: self.args
LauncherArgs(command, script_path, kde) ==
    CASE command = "alacritty" ->
            << <<"--class">>, <<AppId, ",", AppId>>,
               <<"--title">>, <<"EnvLauncher">> >>
                \o BashRcfile("-e", script_path)
      [] command = "cool-retro-term" ->
            BashRcfile("-e", script_path)
      [] command = "guake" ->
            << <<"--no-startup-script">>, <<"--new-tab">>, <<".">>,
               <<"--show">>, <<"-e">>,
               <<"clear", ";", "source", " ">>
                    \o shlex_quote(PathAtoms(script_path)) >>
      [] command = "kitty" ->
            << <<"--class">>, <<AppId>>, <<"bash">>, <<"--rcfile">>,
               PathAtoms(script_path) >>
      [] command = "konsole" ->
            (IF kde THEN << <<"--name">>, <<AppId>> >> ELSE << >>)
                \o << <<"-p">>, <<"Icon=", AppId>>, <<"-p">>,
                      <<"LocalTabTitleFormat=EnvLauncher", " ", ":", " ",
                        "%D", " ", ":", " ", "%n">> >>
                \o BashRcfile("-e", script_path)
      [] command = "mate-terminal" ->
            << <<"--class">>, <<AppId>>, <<"-e">>, BashCommand(script_path) >>
      [] command = "qterminal" ->
            << <<"--name">>, <<AppId>>, <<"-e">>, BashCommand(script_path) >>
      [] command = "sakura" ->
            << <<"--class">>, <<AppId>>, <<"--icon">>, <<AppId>> >>
                \o BashRcfile("-e", script_path)
      [] command = "st" ->
            << <<"-c">>, <<AppId>>, <<"-t">>, <<"EnvLauncher">> >>
                \o BashRcfile("-e", script_path)
      [] command = "terminator" ->
            << <<"--name">>, <<AppId>>, <<"--icon">>, <<AppId>>,
               <<"--no-dbus">> >>
                \o BashRcfile("-x", script_path)
      [] command = "tilix" ->
            << <<"--name">>, <<AppId>> >> \o BashRcfile("-e", script_path)
      [] command = "urxvt" ->
            << <<"-name">>, <<AppId>> >> \o BashRcfile("-e", script_path)
      [] command = "xfce4-terminal" ->
            << <<"--startup-id">>, <<AppId>>, <<"--icon">>, <<AppId>>,
               <<"--initial-title">>, <<"EnvLauncher">> >>
                \o BashRcfile("-x", script_path)
      [] command = "xterm" ->
            << <<"-class">>, <<AppId>>, <<"-n">>, <<AppId>> >>
                \o BashRcfile("-e", script_path)
      [] OTHER -> << >>

NoSpawn == [argv |-> << >>, ok |-> FALSE]

\* No launcher class of launchers.py is in use on its own.
IdleLauncher ==
    /\ lself = [command |-> "none", args |-> << >>]
    /\ lspawn = NoSpawn
    /\ lret = "none"

\* One launcher object, built on the script path of gself; the objects of
\* GnomeTerminalLauncher and YakuakeLauncher are gself and yself.
InitLauncher ==
    /\ lself \in { [command |-> c,
                    args |-> LauncherArgs(c, gself.args[Len(gself.args)], kde)] :
                        c \in SimpleCommands \cup {"gnome-terminal", "yakuake"},
                        kde \in BOOLEAN }
    /\ lspawn = NoSpawn
    /\ lret = "none"

\* __call__ of these classes: return subprocess.Popen([self.command] + self.args)
LCall ==
    /\ lself.command \in SimpleCommands
    /\ \E ok \in BOOLEAN :
        /\ lspawn' = [argv |-> << <<lself.command>> >> \o lself.args, ok |-> ok]
        /\ lret' = IF ok THEN "Popen" ELSE "OSError"
        /\ shell' = IF ok THEN "pending" ELSE shell
    /\ UNCHANGED <<lself, gvars, tvars, yvars, pvars, avars, bvars, svars, evars, cvars,
                   fileExists>>

----------------------------------------------------------------------------
\* Settings and EnvLauncherApp (app.py)

\* get_terminal_emulators: the supported emulators in preference order.
supported ==
    << "gnome-terminal", "terminator", "konsole", "guake", "yakuake",
       "alacritty", "kitty", "xfce4-terminal", "qterminal", "xterm",
       "sakura", "cool-retro-term" >>

\* The installations the model runs with (shutil.which finds the command).
InstalledSets ==
    { {}, {"gnome-terminal", "xterm"}, {"yakuake"}, {"xterm", "kitty"} }

\* Values of the TerminalEmulator option ("None": the option is not set).
ConfiguredValues == { "None", "nonexistent-term", "xterm" }

RECURSIVE AvailableFrom(_, _)
AvailableFrom(installed, i) ==
    IF i > Len(supported) THEN << >>
    ELSE (IF supported[i] \in installed THEN <<supported[i]>> ELSE << >>)
            \o AvailableFrom(installed, i + 1)

\* get_terminal_emulators(): the supported emulators that are installed.
get_terminal_emulators(installed) == AvailableFrom(installed, 1)

\* terminal_emulator with the last available emulator as the fallback.
terminal_emulator_last(settings) ==
    IF \E i \in 1..Len(settings.choices) : settings.choices[i] = settings.value
    THEN settings.value
    ELSE IF settings.choices # << >>
         THEN settings.choices[Len(settings.choices)]
         ELSE "None"

\* Settings.terminal_emulator (property)
terminal_emulator(settings) ==
    IF \E i \in 1..Len(settings.choices) : settings.choices[i] = settings.value
    THEN settings.value
    ELSE IF settings.choices # << >>
         THEN settings.choices[1]
         ELSE "None"

\* shlex.quote(path): unchanged when the path has only safe characters,
\* wrapped in single quotes otherwise.
ShQuote(path) ==
    IF path = "/tmp/my dir/rc" THEN "'/tmp/my dir/rc'" ELSE path

Launcher(kind, args) == [kind |-> kind, args |-> args, exc |-> "none"]

\* get_launcher with xterm as the launcher of every name it does not know.
get_launcher_default(te, rcfile_name) ==
    Launcher("lambda", <<"xterm", "-e", "bash", "--rcfile", rcfile_name>>)

\* EnvLauncherApp.get_launcher: the launcher, or the exception raised.
get_launcher(te, rcfile_name) ==
    CASE te = "gnome-terminal" ->
            Launcher("GnomeTerminalLauncher", GnomeInitArgs(rcfile_name))
      [] te = "terminator" ->
            Launcher("lambda", <<"terminator", "--name", AppId, "--icon", AppId,
                                 "--no-dbus", "-x", "bash", "--rcfile", rcfile_name>>)
      [] te = "xterm" ->
            \* launchers.XTermLauncher: the module has no such attribute
            \* (the class is XtermLauncher)
            [kind |-> "none", args |-> << >>, exc |-> "AttributeError"]
      [] te = "konsole" ->
            Launcher("KonsoleLauncher", <<rcfile_name>>)
      [] te = "alacritty" ->
            Launcher("lambda", <<"alacritty", "--class", <<AppId, AppId>>,
                                 "--title", "EnvLauncher",
                                 "-e", "bash", "--rcfile", rcfile_name>>)
      [] te = "kitty" ->
            Launcher("lambda", <<"kitty", "--class", AppId,
                                 "bash", "--rcfile", rcfile_name>>)
      [] te = "guake" ->
            Launcher("lambda", <<"guake", "--no-startup-script", "--new-tab", ".",
                                 "--show", "-e",
                                 <<"clear;source", ShQuote(rcfile_name)>> >>)
      [] te = "yakuake" ->
            Launcher("YakuakeLauncher", <<rcfile_name>>)
      [] te = "xfce4-terminal" ->
            Launcher("lambda", <<"xfce4-terminal", "--startup-id", AppId,
                                 "--icon", AppId, "--initial-title", "EnvLauncher",
                                 "-x", "bash", "--rcfile", rcfile_name>>)
      [] te = "qterminal" ->
            Launcher("lambda", <<"qterminal", "--name", AppId, "-e",
                                 <<"bash", "--rcfile", ShQuote(rcfile_name)>> >>)
      [] te = "sakura" ->
            Launcher("lambda", <<"sakura", "--class", AppId, "--icon", AppId,
                                 "-e", "bash", "--rcfile", rcfile_name>>)
      [] te = "cool-retro-term" ->
            Launcher("lambda", <<"cool-retro-term", "-e", "bash",
                                 "--rcfile", rcfile_name>>)
      [] OTHER ->
            [kind |-> "none", args |-> << >>, exc |-> "Exception"]

\* KonsoleLauncher.__init__ and __call__: the argument vector.
KonsoleArgs(script_path, kde) ==
    <<"konsole">>
      \o (IF kde THEN <<"--name", AppId>> ELSE << >>)
      \o <<"-p", <<"Icon=", AppId>>,
           "-p", "LocalTabTitleFormat=EnvLauncher : %D : %n",
           "-e", "bash", "--rcfile", script_path>>

\* ---- the text of the activation script ----
\* f'{value}' of an optional path: << >> is None, <<path>> is the path.
Str(value) == IF value = << >> THEN <<"None">> ELSE value[1]

\* f'{cmd} {arg}'
Line(cmd, arg) == <<cmd, " ">> \o arg

RECURSIVE Join(_)
\* '\n'.join(lines)
Join(lines) ==
    IF lines = << >> THEN << >>
    ELSE IF Len(lines) = 1 THEN lines[1]
    ELSE lines[1] \o <<"\n">> \o Join(Tail(lines))

\* EnvLauncherApp._build_rcfile: settings is [rcfile, banner], where banner
\* is [configured, found, path]: banner_resource is not None, and what
\* find_resource_path makes of it.
_build_rcfile(environment, working_dir, file_to_delete, settings) ==
    Join( <<Line("cd", Str(working_dir))>>
          \o (IF settings.rcfile # << >>
              THEN <<Line("source", settings.rcfile)>> ELSE << >>)
          \o <<Line("source", environment)>>
          \o (IF settings.banner.configured
              THEN <<Line("cat", settings.banner.path)>> ELSE << >>)
          \o <<Line("rm", shlex_quote(file_to_delete))>>
          \o << << >> >> )

NoLauncher == [kind |-> "none", args |-> << >>, exc |-> "none"]

\* Settings of a system with no supported emulator and no option set.
NoSettings == [value |-> "None", choices |-> << >>]

\* Settings(desktop_path) read on the systems the model runs with.
AllSettings ==
    { [value |-> v, choices |-> get_terminal_emulators(i)] :
            v \in ConfiguredValues, i \in InstalledSets }

\* The activation scripts, working directories (<< >> is None), Rcfile
\* options ('' is << >>) and banners the model runs with.
Environments ==
    { <<"/home/u/.venv/bin/activate">>,
      <<"/home/u/my", " ", "env/bin/activate">> }

WorkingDirs ==
    { << >>,
      << <<"/home/u/proj">> >>,
      << <<"/home/u/my", " ", "proj">> >>,
      << <<"\"", ";", " ", "rm", " ", "-rf", " ", "/tmp/x", ";", " ", "echo">> >> }

Rcfiles ==
    { << >>, <<"/home/u/.bashrc">>, <<"/home/u/rc", ";", "id">> }

NoBanner == [configured |-> FALSE, found |-> FALSE, path |-> << >>]

Banners ==
    { NoBanner,
      [configured |-> TRUE, found |-> TRUE,
       path |-> <<"/usr/share/envlauncher/banner-color.ascii">>],
      [configured |-> TRUE, found |-> TRUE,
       path |-> <<"/home/u/my", " ", "data/envlauncher/banner-plain.ascii">>],
      [configured |-> TRUE, found |-> FALSE, path |-> << >>] }

AllInputs ==
    [environment : Environments, working_dir : WorkingDirs,
     rcfile : Rcfiles, banner : Banners]

\* `envlauncher --activate /home/u/.venv/bin/activate` with no Rcfile
\* option: the banner is off, or on and not installed.
PlainInputs ==
    { i \in AllInputs : /\ i.environment = <<"/home/u/.venv/bin/activate">>
                        /\ i.working_dir = << >>
                        /\ i.rcfile = << >>
                        /\ i.banner.path = << >> }

\* The arguments of the call and the options read by Settings.__init__.
InitBuild(inputs) ==
    /\ binput \in inputs
    /\ script = << >>

IdleBuild ==
    InitBuild({ [environment |-> <<"/home/u/.venv/bin/activate">>,
                 working_dir |-> << >>, rcfile |-> << >>,
                 banner |-> NoBanner] })

\* EnvLauncherApp.__init__: the settings are read; nothing is launched yet.
AppIdle(settings) ==
    /\ apc = "idle"
    /\ asettings \in settings
    /\ rcfile = "unbound"
    /\ afunc = NoLauncher
    /\ aspawns = << >>
    /\ aerr = "none"
    /\ araised = "none"

InitApp == AppIdle(AllSettings)

\* line 445: tempfile.NamedTemporaryFile(mode='w', delete=False); the
\* name `rcfile` is bound only when the file was created.
ACreate ==
    /\ apc = "idle"
    /\ \/ /\ rcfile' \in ScriptPaths
          /\ fileExists' = TRUE
          /\ apc' = "build"
          /\ aerr' = aerr
       \/ /\ aerr' = "OSError"
          /\ apc' = "except"
          /\ UNCHANGED <<rcfile, fileExists>>
    /\ UNCHANGED <<asettings, afunc, aspawns, araised, gvars, tvars, yvars,
                   pvars, ovars, shell>>

\* lines 446-448: _build_rcfile; find_resource_path raises
\* FileNotFoundError when the banner file is not installed.
ABuild ==
    /\ apc = "build"
    /\ IF binput.banner.configured /\ ~binput.banner.found
       THEN /\ apc' = "except"
            /\ aerr' = "FileNotFoundError"
            /\ script' = script
       ELSE /\ apc' = "write"
            /\ aerr' = aerr
            /\ script' = _build_rcfile(binput.environment, binput.working_dir,
                                       PathAtoms(rcfile), binput)
    /\ UNCHANGED <<asettings, rcfile, afunc, aspawns, araised, gvars, tvars,
                   yvars, pvars, binput, lvars, svars, evars, cvars, shell, fileExists>>

\* line 449 and the end of the with block: write, flush and close.
AWrite ==
    /\ apc = "write"
    /\ \/ apc' = "resolve" /\ aerr' = aerr
       \/ apc' = "except" /\ aerr' = "OSError"
    /\ UNCHANGED <<asettings, rcfile, afunc, aspawns, araised, gvars, tvars,
                   yvars, pvars, ovars, shell, fileExists>>

\* lines 451-454: func = self.get_launcher(settings.terminal_emulator, name)
AResolve ==
    /\ apc = "resolve"
    /\ LET func == get_launcher(terminal_emulator(asettings), rcfile) IN
       IF func.exc # "none"
       THEN /\ aerr' = func.exc
            /\ apc' = "except"
            /\ UNCHANGED <<afunc, gself, yself>>
       ELSE /\ afunc' = func
            /\ apc' = "invoke"
            /\ aerr' = aerr
            /\ gself' = IF func.kind = "GnomeTerminalLauncher"
                        THEN [args |-> func.args] ELSE gself
            /\ yself' = IF func.kind = "YakuakeLauncher"
                        THEN [script_path |-> func.args[1]] ELSE yself
    /\ UNCHANGED <<asettings, rcfile, aspawns, araised, gpc, gargs, genv, greg,
                   gexc, gspawns, gq, polls, sleeps, tvars, ypc, ycalls,
                   ysession, yvis, yexc, yret, pvars, ovars, shell, fileExists>>

\* line 455: func(), for the launchers that are one Popen call.
AInvokePopen ==
    /\ apc = "invoke"
    /\ afunc.kind \in {"lambda", "KonsoleLauncher"}
    /\ \E ok \in BOOLEAN, kde \in BOOLEAN :
        /\ aspawns' = Append(aspawns,
                [argv |-> IF afunc.kind = "lambda" THEN afunc.args
                          ELSE KonsoleArgs(afunc.args[1], kde),
                 ok |-> ok])
        /\ IF ok
           THEN apc' = "done" /\ shell' = "pending" /\ aerr' = aerr
           ELSE apc' = "except" /\ shell' = shell /\ aerr' = "OSError"
    /\ UNCHANGED <<asettings, rcfile, afunc, araised, gvars, tvars, yvars,
                   pvars, ovars, fileExists>>

\* line 455: func(), GnomeTerminalLauncher.__call__ is entered.
AInvokeGnome ==
    /\ apc = "invoke"
    /\ afunc.kind = "GnomeTerminalLauncher"
    /\ GEnter
    /\ apc' = "running"
    /\ UNCHANGED <<asettings, rcfile, afunc, aspawns, aerr, araised, yvars,
                   pvars, ovars, shell, fileExists>>

\* line 455: func(), YakuakeLauncher.__call__ is entered.
AInvokeYakuake ==
    /\ apc = "invoke"
    /\ afunc.kind = "YakuakeLauncher"
    /\ YEnter
    /\ apc' = "running"
    /\ UNCHANGED <<asettings, rcfile, afunc, aspawns, aerr, araised, gvars,
                   pvars, ovars, shell, fileExists>>

\* line 455: func() returns, or its exception reaches the except clause.
AReturned ==
    /\ apc = "running"
    /\ \/ /\ afunc.kind = "GnomeTerminalLauncher"
          /\ gpc = "done"
          /\ gpc' = "idle"
          /\ ypc' = ypc
          /\ aerr' = gexc
       \/ /\ afunc.kind = "YakuakeLauncher"
          /\ ypc = "done"
          /\ ypc' = "idle"
          /\ gpc' = gpc
          /\ aerr' = yexc
    /\ apc' = IF aerr' = "none" THEN "done" ELSE "except"
    /\ UNCHANGED <<asettings, rcfile, afunc, aspawns, araised, gself, gargs,
                   genv, greg, gexc, gspawns, gq, polls, sleeps, tvars, yself,
                   ycalls, ysession, yvis, yexc, yret, pvars, ovars, shell, fileExists>>

\* An except clause that tries the launch again instead of raising.
AExcept_retry ==
    /\ apc = "except"
    /\ apc' = IF rcfile = "unbound" THEN "done" ELSE "resolve"
    /\ aerr' = "none"
    /\ araised' = IF rcfile = "unbound" THEN "UnboundLocalError" ELSE araised
    /\ UNCHANGED <<asettings, rcfile, afunc, aspawns, gvars, tvars, yvars,
                   pvars, ovars, shell, fileExists>>

\* lines 457-462: except Exception: os.remove(rcfile.name), ignoring
\* FileNotFoundError; then `raise`.  With `rcfile` unbound the handler
\* itself raises UnboundLocalError.
AExcept ==
    /\ apc = "except"
    /\ IF rcfile = "unbound"
       THEN /\ araised' = "UnboundLocalError"
            /\ fileExists' = fileExists
       ELSE /\ fileExists' = FALSE
            /\ araised' = aerr
    /\ apc' = "done"
    /\ UNCHANGED <<asettings, rcfile, afunc, aspawns, aerr, gvars, tvars,
                   yvars, pvars, ovars, shell>>

\* The bash of the new window or tab opens the script (--rcfile, source).
ShellStart ==
    /\ shell = "pending"
    /\ shell' = IF fileExists THEN "sourcing" ELSE "failed"
    /\ UNCHANGED <<fileExists, gvars, tvars, yvars, pvars, avars, ovars>>

\* The last statement of the script: rm of the script file itself.
ShellFinish ==
    /\ shell = "sourcing"
    /\ shell' = "finished"
    /\ fileExists' = FALSE
    /\ UNCHANGED <<gvars, tvars, yvars, pvars, avars, ovars>>

----------------------------------------------------------------------------
\* Settings.make_identifier (app.py).  An action identifier is
\* [prefix, num]: the text of prefix followed by the decimal num, or by
\* something that is not a number when num = 0.

\* The counter is not advanced beyond MaxNumber + 1.
MaxNumber == 4

\* The venv identifiers a caller of set_actions passes are venv1..venv<MaxListed>.
MaxListed == 3

_venv_prefix == "venv"

\* f'{self._venv_prefix}{n}'
VenvId(n) == [prefix |-> _venv_prefix, num |-> n]

Configure == [prefix |-> "configure", num |-> 0]

VenvOld == [prefix |-> _venv_prefix, num |-> 0]

\* x.startswith(self._venv_prefix)
StartsWithVenv(x) == x.prefix = _venv_prefix

\* The text of a value (a Name, an Exec line, a path) is a sequence of
\* atoms: a run of ordinary characters, a blank, a single percent sign, a
\* doubled percent sign, or one of the three fixed parts of an Exec line.
Blank == " "
Percent == "%"
PercentPercent == "%%"
ExecPrefix == "envlauncher --activate \""
ExecSeparator == "\" --directory \""
ExecSuffix == "\""

\* f'envlauncher --activate "{activate}" --directory "{directory}"'
ExecValue(activate, directory) ==
    <<ExecPrefix>> \o activate \o <<ExecSeparator>> \o directory \o <<ExecSuffix>>

RECURSIVE LStrip(_)
LStrip(s) == IF s # << >> /\ s[1] = Blank THEN LStrip(Tail(s)) ELSE s

RECURSIVE RStrip(_)
RStrip(s) ==
    IF s # << >> /\ s[Len(s)] = Blank THEN RStrip(SubSeq(s, 1, Len(s) - 1)) ELSE s

\* name.strip()
Strip(s) == RStrip(LStrip(s))

\* BasicInterpolation.before_set: a percent sign that is not doubled is
\* rejected with ValueError; before_get raises InterpolationSyntaxError
\* for it.
HasLonePercent(value) == \E i \in 1..Len(value) : value[i] = Percent

\* BasicInterpolation.before_get: '%%' is read as '%'.
Interpolate(value) ==
    [i \in 1..Len(value) |->
        IF value[i] = PercentPercent THEN Percent ELSE value[i]]

\* The places of the text '" --directory "' that leave both groups of
\* the pattern non-empty.
SeparatorsOf(e) == { k \in 3..(Len(e) - 2) : e[k] = ExecSeparator }

\* regex.match(...) of get_actions:
\* ^envlauncher --activate "(.+)" --directory "(.+)"$
Matches(e) ==
    /\ Len(e) >= 5
    /\ e[1] = ExecPrefix
    /\ e[Len(e)] = ExecSuffix
    /\ SeparatorsOf(e) # {}

\* match.group(1, 2): the first group is greedy, so it ends at the last
\* separator.
MatchGroups(e) ==
    LET k == CHOOSE x \in SeparatorsOf(e) : \A y \in SeparatorsOf(e) : y <= x
    IN  <<SubSeq(e, 2, k - 1), SubSeq(e, k + 1, Len(e) - 1)>>

\* A 'Desktop Action <id>' group of the parser.  A key is << >> when the
\* group does not have it and <<value>> when it has.
Group(id, name, exec) == [id |-> id, name |-> name, exec |-> exec]

\* section.startswith(f'Desktop Action {self._venv_prefix}')
IsVenvGroup(g) == StartsWithVenv(g.id)

\* The place of the group of an identifier in the parser, 0 for none.
GroupAt(groups, id) ==
    IF \E i \in 1..Len(groups) : groups[i].id = id
    THEN CHOOSE i \in 1..Len(groups) : groups[i].id = id
    ELSE 0

\* An action as set_actions takes it and get_actions returns it:
\* (identifier, name, activate, directory)
Action(id, name, activate, directory) ==
    [id |-> id, name |-> name, activate |-> activate, directory |-> directory]

RECURSIVE AddGroups(_, _, _)
\* set_actions, lines 312-318: self._parser[f'Desktop Action {identifier}']
\* = {'Name': ..., 'Exec': ...} for each action.  The group is emptied or
\* added first, then the keys are set one by one; a value that is
\* rejected ends the call with the group as it is by then.
AddGroups(groups, actions, i) ==
    IF i > Len(actions) THEN [groups |-> groups, exc |-> "none"]
    ELSE LET a == actions[i]
             name == Strip(a.name)
             exec == ExecValue(a.activate, a.directory)
             at == GroupAt(groups, a.id)
             Put(g) == IF at = 0 THEN Append(groups, g)
                       ELSE [groups EXCEPT ![at] = g]
         IN  IF HasLonePercent(name)
             THEN [groups |-> Put(Group(a.id, << >>, << >>)),
                   exc |-> "ValueError"]
             ELSE IF HasLonePercent(exec)
             THEN [groups |-> Put(Group(a.id, <<name>>, << >>)),
                   exc |-> "ValueError"]
             ELSE AddGroups(Put(Group(a.id, <<name>>, <<exec>>)), actions, i + 1)

\* set_actions without the removal of the venv groups that are there.
set_actions_keep(groups, key, actions_value, actions) ==
    LET added == AddGroups(groups, actions, 1)
        venv_identifiers == [i \in 1..Len(actions) |-> actions[i].id]
        other_identifiers ==
            SelectSeq(actions_value, LAMBDA x : ~StartsWithVenv(x))
    IN  IF added.exc # "none"
        THEN [groups |-> added.groups, key |-> key,
              actions |-> actions_value, exc |-> added.exc]
        ELSE [groups |-> added.groups, key |-> TRUE,
              actions |-> venv_identifiers \o other_identifiers,
              exc |-> "none"]

\* Settings.set_actions: the parser afterwards, and the exception raised.
\* key: the Desktop Entry group has the Actions key (actions_value is
\* << >> when it has not).
set_actions(groups, key, actions_value, actions) ==
    LET kept == SelectSeq(groups, LAMBDA g : ~IsVenvGroup(g))
        added == AddGroups(kept, actions, 1)
        venv_identifiers == [i \in 1..Len(actions) |-> actions[i].id]
        other_identifiers ==
            SelectSeq(actions_value, LAMBDA x : ~StartsWithVenv(x))
    IN  IF added.exc # "none"
        THEN [groups |-> added.groups, key |-> key,
              actions |-> actions_value, exc |-> added.exc]
        ELSE [groups |-> added.groups, key |-> TRUE,
              actions |-> venv_identifiers \o other_identifiers,
              exc |-> "none"]

RECURSIVE ActionData(_, _, _)
\* get_actions, lines 279-288: the loop over the sections of the parser.
ActionData(groups, i, action_data) ==
    IF i > Len(groups) THEN [data |-> action_data, exc |-> "none"]
    ELSE LET g == groups[i] IN
         IF ~IsVenvGroup(g) THEN ActionData(groups, i + 1, action_data)
         ELSE IF g.name = << >> THEN [data |-> << >>, exc |-> "KeyError"]
         ELSE IF HasLonePercent(g.name[1])
              THEN [data |-> << >>, exc |-> "InterpolationSyntaxError"]
         ELSE IF g.exec = << >> THEN [data |-> << >>, exc |-> "KeyError"]
         ELSE IF HasLonePercent(g.exec[1])
              THEN [data |-> << >>, exc |-> "InterpolationSyntaxError"]
         ELSE LET e == Interpolate(g.exec[1]) IN
              IF Matches(e)
              THEN ActionData(groups, i + 1,
                       Append(action_data,
                              Action(g.id, Interpolate(g.name[1]),
                                     MatchGroups(e)[1], MatchGroups(e)[2])))
              ELSE ActionData(groups, i + 1, action_data)

\* The actions in the order of their groups.
InIdentifierOrder_sections(identifiers, i, action_data) ==
    SelectSeq(action_data,
              LAMBDA a : \E k \in 1..Len(identifiers) : identifiers[k] = a.id)

RECURSIVE InIdentifierOrder(_, _, _)
\* get_actions, lines 293-298: action_data.pop(ident, None) for each
\* identifier of the Actions value.
InIdentifierOrder(identifiers, i, action_data) ==
    IF i > Len(identifiers) THEN << >>
    ELSE SelectSeq(action_data, LAMBDA a : a.id = identifiers[i])
            \o InIdentifierOrder(identifiers, i + 1,
                    SelectSeq(action_data, LAMBDA a : a.id # identifiers[i]))

\* Settings.get_actions: the list returned, or the exception raised.
get_actions(groups, actions_value) ==
    LET scanned == ActionData(groups, 1, << >>) IN
    IF scanned.exc # "none" THEN [ret |-> << >>, exc |-> scanned.exc]
    ELSE [ret |-> InIdentifierOrder(actions_value, 1, scanned.data),
          exc |-> "none"]

\* The banner setter, lines 246-249.
banner_setter(value) ==
    IF value \notin {"color", "plain", "none"} THEN "color" ELSE value

\* banner_resource, lines 251-263: the two-tuple, or << >> for None.
banner_resource(banner) ==
    IF banner = "color" THEN <<"envlauncher", "banner-color.ascii">>
    ELSE IF banner = "plain" THEN <<"envlauncher", "banner-plain.ascii">>
    ELSE << >>

\* The groups of the desktop entry files the model starts with.
ConfigureGroup ==
    Group(Configure, << <<"Configure">> >>, << <<"envlauncher --configure">> >>)

FileGroup(n) ==
    Group(VenvId(n), << <<"Project">> >>,
          << ExecValue(<<"/venv/bin/activate">>, <<"/proj">>) >>)

\* A venv group whose Exec line is not of the form get_actions reads.
OldGroup ==
    Group(VenvOld, << <<"Old">> >>, << <<"envlauncher --old">> >>)

\* The desktop entry files the model starts with: the Actions value (key:
\* the key is there) and the action groups, in file order.
InitFiles ==
    { [key |-> TRUE, actions |-> <<Configure>>,
       groups |-> <<ConfigureGroup>>],
      [key |-> TRUE, actions |-> <<VenvId(2), Configure>>,
       groups |-> <<FileGroup(2), ConfigureGroup>>],
      [key |-> TRUE, actions |-> <<VenvId(1), VenvId(2), Configure>>,
       groups |-> <<FileGroup(2), FileGroup(1), ConfigureGroup>>],
      [key |-> TRUE, actions |-> <<VenvId(1), VenvId(3), VenvOld, Configure>>,
       groups |-> <<FileGroup(1), OldGroup, ConfigureGroup>>],
      [key |-> FALSE, actions |-> << >>,
       groups |-> <<ConfigureGroup, FileGroup(1)>>] }

\* The Actions values of the desktop entry files the model starts with.
InitActions == { f.actions : f \in { g \in InitFiles : g.key } }

\* The Banner option of the files the model starts with (<< >>: not set),
\* and the values assigned to the banner property.
FileBanners == { << >>, <<"fancy">> }
BannerValues == { "none", "plain", "bright" }

\* The names and paths of the actions handed to set_actions, by the number
\* of the identifier: a plain one, one with blanks around the name and in
\* the paths, one with a percent sign in the name.
VariantOf(a) ==
    CASE a % 3 = 1 ->
            [name |-> <<"Project">>,
             activate |-> <<"/venv/bin/activate">>, directory |-> <<"/proj">>]
      [] a % 3 = 2 ->
            [name |-> <<Blank, "My Project", Blank>>,
             activate |-> <<"/my env/bin/activate">>,
             directory |-> <<"/my proj">>]
      [] OTHER ->
            [name |-> <<"50", Percent>>,
             activate |-> <<"/venv/bin/activate">>, directory |-> <<"/proj">>]

\* A second action under venv1: a doubled percent sign in one path, the
\* text '" --directory "' in the other.
OtherAction ==
    Action(VenvId(1), <<"Other">>,
           <<"/a", PercentPercent, "b/bin/activate">>,
           <<"/b", ExecSeparator, "c">>)

\* The actions handed to set_actions: venv1..venv<MaxListed>.
GivenActions ==
    { Action(VenvId(a), VariantOf(a).name, VariantOf(a).activate,
             VariantOf(a).directory) : a \in 1..MaxListed }
    \cup { OtherAction }

\* The lists of actions handed to set_actions.
ActionLists ==
    { << >> } \cup { <<a>> : a \in GivenActions }
              \cup { <<a, b>> : a, b \in GivenActions }

IdleSettings ==
    /\ sactions = <<Configure>>
    /\ skey = TRUE
    /\ sgroups = <<ConfigureGroup>>
    /\ sbanner = "color"
    /\ snumber = 1
    /\ sreturned = << >>
    /\ sop = "init"
    /\ sgiven = << >>
    /\ sgot = << >>
    /\ serr = "none"

\* Settings.__init__: the file is read, self._banner is the Banner option
\* as it stands (fallback 'color'), self._venv_number = itertools.count(1)
InitSettings ==
    /\ \E f \in InitFiles :
        /\ sactions = f.actions
        /\ skey = f.key
        /\ sgroups = f.groups
    /\ \E b \in FileBanners : sbanner = IF b = << >> THEN "color" ELSE b[1]
    /\ snumber = 1
    /\ sreturned = << >>
    /\ sop = "init"
    /\ sgiven = << >>
    /\ sgot = << >>
    /\ serr = "none"

\* {x for x in actions_value.split(';') if x.startswith(self._venv_prefix)}
Identifiers(actions_value) ==
    { actions_value[i] : i \in { j \in 1..Len(actions_value) :
                                    StartsWithVenv(actions_value[j]) } }

\* The counter alone: the candidate is not compared with the identifiers.
NextFree_unchecked(n, identifiers) == n

RECURSIVE NextFree(_, _)
\* next(self._venv_number) until the candidate is not in identifiers:
\* n is the value the counter yields next.
NextFree(n, identifiers) ==
    IF VenvId(n) \in identifiers THEN NextFree(n + 1, identifiers) ELSE n

\* Settings.make_identifier; self._parser['Desktop Entry']['Actions']
\* raises KeyError when the key is missing.
SMakeIdentifier ==
    /\ IF skey
       THEN LET n == NextFree(snumber, Identifiers(sactions)) IN
            /\ n <= MaxNumber
            /\ snumber' = n + 1
            /\ sreturned' = Append(sreturned, VenvId(n))
            /\ serr' = "none"
       ELSE /\ serr' = "KeyError"
            /\ UNCHANGED <<snumber, sreturned>>
    /\ sop' = "make_identifier"
    /\ sgot' = << >>
    /\ UNCHANGED <<sactions, skey, sgroups, sbanner, sgiven>>
    /\ UNCHANGED <<gvars, tvars, yvars, pvars, avars, bvars, lvars, evars, cvars, shell,
                   fileExists>>

\* Settings.set_actions
SSetActions ==
    /\ \E actions \in ActionLists :
        LET after == set_actions(sgroups, skey, sactions, actions) IN
        /\ sgroups' = after.groups
        /\ skey' = after.key
        /\ sactions' = after.actions
        /\ serr' = after.exc
        /\ sgiven' = actions
    /\ sop' = "set_actions"
    /\ sgot' = << >>
    /\ UNCHANGED <<sbanner, snumber, sreturned>>
    /\ UNCHANGED <<gvars, tvars, yvars, pvars, avars, bvars, lvars, evars, cvars, shell,
                   fileExists>>

\* Settings.get_actions
SGetActions ==
    /\ LET got == get_actions(sgroups, sactions) IN
        /\ sgot' = got.ret
        /\ serr' = got.exc
    /\ sop' = "get_actions"
    /\ UNCHANGED <<sactions, skey, sgroups, sbanner, snumber, sreturned, sgiven>>
    /\ UNCHANGED <<gvars, tvars, yvars, pvars, avars, bvars, lvars, evars, cvars, shell,
                   fileExists>>

\* settings.banner = value
SSetBanner ==
    /\ \E value \in BannerValues : sbanner' = banner_setter(value)
    /\ sop' = "banner"
    /\ sgot' = << >>
    /\ serr' = "none"
    /\ UNCHANGED <<sactions, skey, sgroups, snumber, sreturned, sgiven>>
    /\ UNCHANGED <<gvars, tvars, yvars, pvars, avars, bvars, lvars, evars, cvars, shell,
                   fileExists>>

----------------------------------------------------------------------------
\* Settings._escape_comments, _unescape_comments, the read of __init__ and
\* export_string (app.py).  A text is the sequence of its lines
\* (string.split('\n')); a line is a sequence of atoms: a piece of text, or
\* an escape marker f'{_escape_prefix}{index}{_escape_suffix}'.

\* The texts have up to MaxLines lines.
MaxLines == 4

_escape_prefix == "_COMMENT"

_escape_suffix == "ZZ=ZZ"

Text(s) == [kind |-> "text", s |-> s, n |-> 0]

\* f'{cls._escape_prefix}{index}{cls._escape_suffix}'
Marker(index) == [kind |-> "marker", s |-> _escape_prefix, n |-> index]

EmptyLine == << >>

\* The lines of the texts of the model: a blank line, a comment, a comment
\* that has the text of a marker in it, two group headers, an entry, and a
\* line that begins with the text of a marker.
LineKinds ==
    { EmptyLine,
      <<Text("#"), Text("Foo")>>,
      <<Text("#"), Marker(2)>>,
      <<Text("["), Text("Desktop Entry]")>>,
      <<Text("["), Text("Desktop Action a]")>>,
      <<Text("Type=Application")>>,
      <<Marker(1), Text("foo")>> }

Texts == UNION { [1..n -> LineKinds] : n \in 1..MaxLines }

\* line.startswith(c)
StartsWith(line, c) == line # << >> /\ line[1] = Text(c)

\* _escape_comments: comment lines, and blank lines that are not the last
\* line and do not come right before a group header, get the marker of
\* their line number in front.
_escape_comments(lines) ==
    [i \in 1..Len(lines) |->
        IF \/ StartsWith(lines[i], "#")
           \/ /\ lines[i] = EmptyLine
              /\ i < Len(lines)
              /\ ~StartsWith(lines[i + 1], "[")
        THEN <<Marker(i)>> \o lines[i]
        ELSE lines[i]]

\* cls._escape_regex.match(line): _COMMENT, digits, ZZ=ZZ at the start.
EscapeRegexMatches(line) == line # << >> /\ line[1].kind = "marker"

\* The atom has the text of the suffix in it.
HasSuffix(atom) == atom.kind = "marker" \/ atom.s = _escape_suffix

\* line.partition(cls._escape_suffix)[2]: what follows the first suffix.
AfterSuffix(line) ==
    IF \E k \in 1..Len(line) : HasSuffix(line[k])
    THEN LET k == CHOOSE x \in 1..Len(line) :
                    /\ HasSuffix(line[x])
                    /\ \A y \in 1..(x - 1) : ~HasSuffix(line[y])
         IN  SubSeq(line, k + 1, Len(line))
    ELSE << >>

\* _unescape_comments
_unescape_comments(lines) ==
    [i \in 1..Len(lines) |->
        IF EscapeRegexMatches(lines[i]) THEN AfterSuffix(lines[i]) ELSE lines[i]]

\* The option name of a line of the form name=value.
OptionName(line) == line[1]

RECURSIVE read_string(_, _, _, _, _)
\* self._parser.read_string(string), line by line: blank lines are
\* skipped, a group header opens a section, any other line is an option
\* of the open section.  items: the headers and options read so far;
\* headers, names: the headers seen, the option names of the open section.
read_string(lines, i, items, headers, names) ==
    IF i > Len(lines) THEN [exc |-> "none", items |-> items]
    ELSE LET line == lines[i] IN
         IF line = EmptyLine
         THEN read_string(lines, i + 1, items, headers, names)
         ELSE IF StartsWith(line, "[")
         THEN IF line \in headers
              THEN [exc |-> "DuplicateSectionError", items |-> << >>]
              ELSE read_string(lines, i + 1, Append(items, line),
                               headers \cup {line}, {})
         ELSE IF headers = {}
              THEN [exc |-> "MissingSectionHeaderError", items |-> << >>]
         ELSE IF OptionName(line) \in names
              THEN [exc |-> "DuplicateOptionError", items |-> << >>]
         ELSE read_string(lines, i + 1, Append(items, line), headers,
                          names \cup {OptionName(line)})

RECURSIVE write(_, _)
\* self._parser.write(f, space_around_delimiters=False): each section is
\* its header, its options and a blank line.
write(items, i) ==
    IF i > Len(items) THEN IF items = << >> THEN << >> ELSE <<EmptyLine>>
    ELSE (IF i > 1 /\ StartsWith(items[i], "[") THEN <<EmptyLine>> ELSE << >>)
            \o <<items[i]>> \o write(items, i + 1)

RECURSIVE StripFront(_)
StripFront(lines) ==
    IF lines # << >> /\ lines[1] = EmptyLine THEN StripFront(Tail(lines))
    ELSE lines

RECURSIVE StripBack(_)
StripBack(lines) ==
    IF lines # << >> /\ lines[Len(lines)] = EmptyLine
    THEN StripBack(SubSeq(lines, 1, Len(lines) - 1))
    ELSE lines

\* export_string: write, unescape, f'{string.strip()}\n'
export_string(items) ==
    LET stripped == StripBack(StripFront(_unescape_comments(write(items, 1))))
    IN  (IF stripped = << >> THEN <<EmptyLine>> ELSE stripped) \o <<EmptyLine>>

NotLoaded == [exc |-> "none", items |-> << >>]

IdleEscape ==
    /\ epc = "done"
    /\ etext = <<EmptyLine>>
    /\ eesc = << >>
    /\ eback = << >>
    /\ eload = NotLoaded
    /\ eout = << >>

InitEscape ==
    /\ epc = "start"
    /\ etext \in Texts
    /\ eesc = << >>
    /\ eback = << >>
    /\ eload = NotLoaded
    /\ eout = << >>

\* Settings._escape_comments(string)
EEscape ==
    /\ epc = "start"
    /\ eesc' = _escape_comments(etext)
    /\ epc' = "escaped"
    /\ UNCHANGED <<etext, eback, eload, eout>>
    /\ UNCHANGED <<gvars, tvars, yvars, pvars, avars, bvars, lvars, svars,
                   cvars, shell, fileExists>>

\* Settings._unescape_comments(escaped)
EUnescape ==
    /\ epc = "escaped"
    /\ eback' = _unescape_comments(eesc)
    /\ epc' = "unescaped"
    /\ UNCHANGED <<etext, eesc, eload, eout>>
    /\ UNCHANGED <<gvars, tvars, yvars, pvars, avars, bvars, lvars, svars,
                   cvars, shell, fileExists>>

\* Settings.from_string(string): __init__ lines 155-156
ELoad ==
    /\ epc = "start"
    /\ eesc' = _escape_comments(etext)
    /\ eload' = read_string(_escape_comments(etext), 1, << >>, {}, {})
    /\ epc' = "loaded"
    /\ UNCHANGED <<etext, eback, eout>>
    /\ UNCHANGED <<gvars, tvars, yvars, pvars, avars, bvars, lvars, svars,
                   cvars, shell, fileExists>>

\* settings.export_string()
EExport ==
    /\ epc = "loaded"
    /\ eload.exc = "none"
    /\ eout' = export_string(eload.items)
    /\ epc' = "exported"
    /\ UNCHANGED <<etext, eesc, eback, eload>>
    /\ UNCHANGED <<gvars, tvars, yvars, pvars, avars, bvars, lvars, svars,
                   cvars, shell, fileExists>>

----------------------------------------------------------------------------
\* parse_args (envlauncher/cli.py, and the same text in envlauncher.py) and
\* the main() that goes on from it (envlauncher/main.py, envlauncher.py).
\* An argument with a value is << >> when it is not given and <<value>>
\* when it is.

CliFiles == { "envlauncher/cli.py", "envlauncher.py" }

\* The command lines of the model.
CommandLines ==
    [ activate : { << >>, <<"">>, <<"myscript">> },
      directory : { << >>, <<"">>, <<"mydir">> },
      config : { "none", "--configure", "--settings" },
      reset_all : BOOLEAN,
      version : BOOLEAN ]

\* parser.add_argument('--settings', action='store_true', ...): cli.py
\* line 47, envlauncher.py line 441.
ConfigurationFlag ==
    ("envlauncher/cli.py" :> "--settings") @@ ("envlauncher.py" :> "--settings")

\* The attribute argparse stores a flag in.
Dest(flag) ==
    CASE flag = "--settings" -> "settings"
      [] flag = "--configure" -> "configure"

\* The attribute main() reads after args.activate: main.py line 32,
\* envlauncher.py line 491.
MainReads ==
    ("envlauncher/cli.py" :> "configure") @@ ("envlauncher.py" :> "settings")

\* The truth value of an argument with a value: None and '' are false.
Truthy(arg) == arg # << >> /\ arg[1] # ""

NoNamespace ==
    [names |-> {}, activate |-> << >>, directory |-> << >>, config |-> FALSE,
     reset_all |-> FALSE, version |-> FALSE]

\* The namespace of parser.parse_args: config is the value of the
\* attribute of the configuration flag.
Namespace(file, argv) ==
    [names |-> {"activate", "directory", Dest(ConfigurationFlag[file]),
                "reset_all", "version"},
     activate |-> argv.activate,
     directory |-> argv.directory,
     config |-> (argv.config = ConfigurationFlag[file]),
     reset_all |-> argv.reset_all,
     version |-> argv.version]

\* parse_args: parser.parse_args ends with exit status 2 for a flag the
\* parser does not know, parser.error does for the combinations of lines
\* 64-71.
parse_args(file, argv) ==
    LET args == Namespace(file, argv) IN
    IF argv.config \notin {"none", ConfigurationFlag[file]}
    THEN [exit |-> "2", args |-> NoNamespace]
    ELSE IF Truthy(args.activate) /\ args.config
    THEN [exit |-> "2", args |-> NoNamespace]
    ELSE IF Truthy(args.directory) /\ ~Truthy(args.activate)
    THEN [exit |-> "2", args |-> NoNamespace]
    ELSE IF args.reset_all /\ ~args.config
    THEN [exit |-> "2", args |-> NoNamespace]
    ELSE IF args.version /\ (Truthy(args.activate) \/ args.config)
    THEN [exit |-> "2", args |-> NoNamespace]
    ELSE [exit |-> "none", args |-> args]

\* main() after parse_args: what it goes on to do.
main(file, args) ==
    IF Truthy(args.activate) THEN "launch"
    ELSE IF MainReads[file] \notin args.names THEN "AttributeError"
    ELSE IF args.config THEN "configure"
    ELSE IF args.version THEN "version"
    ELSE "return"

IdleCli ==
    /\ cpc = "done"
    /\ cfile = "envlauncher.py"
    /\ cargv = [activate |-> << >>, directory |-> << >>, config |-> "none",
                reset_all |-> FALSE, version |-> FALSE]
    /\ cargs = NoNamespace
    /\ cexit = "none"
    /\ cdone = "return"

InitCli ==
    /\ cpc = "start"
    /\ cfile \in CliFiles
    /\ cargv \in CommandLines
    /\ cargs = NoNamespace
    /\ cexit = "none"
    /\ cdone = "none"

\* args = parse_args()
CParse ==
    /\ cpc = "start"
    /\ LET parsed == parse_args(cfile, cargv) IN
        /\ cargs' = parsed.args
        /\ cexit' = parsed.exit
        /\ cpc' = IF parsed.exit = "none" THEN "parsed" ELSE "done"
        /\ cdone' = IF parsed.exit = "none" THEN cdone ELSE "SystemExit"
    /\ UNCHANGED <<cfile, cargv>>
    /\ UNCHANGED <<gvars, tvars, yvars, pvars, avars, bvars, lvars, svars,
                   evars, shell, fileExists>>

\* main(), from the test of args.activate on.
CMain ==
    /\ cpc = "parsed"
    /\ cdone' = main(cfile, cargs)
    /\ cpc' = "done"
    /\ UNCHANGED <<cfile, cargv, cargs, cexit>>
    /\ UNCHANGED <<gvars, tvars, yvars, pvars, avars, bvars, lvars, svars,
                   evars, shell, fileExists>>

----------------------------------------------------------------------------
InitTime ==
    /\ clock = 0
    /\ deadline = 0

InitShell ==
    /\ shell = "none"
    /\ fileExists = FALSE

Init ==
    /\ InitGnome /\ InitYakuake /\ InitParse /\ InitTime /\ InitShell
    /\ InitApp /\ InitBuild(PlainInputs) /\ IdleLauncher /\ IdleSettings /\ IdleEscape /\ IdleCli

\* One run of the program: main() builds the app and calls it once.
Next ==
    \/ ACreate
    \/ ABuild
    \/ AWrite
    \/ AResolve
    \/ AInvokePopen
    \/ AInvokeGnome
    \/ AInvokeYakuake
    \/ GnomeSteps
    \/ YakuakeSteps
    \/ AReturned
    \/ AExcept
    \/ ShellStart
    \/ ShellFinish

Spec == Init /\ [][Next]_vars

\* The launchers used on their own: no call of the app is in progress.
InitLaunchers ==
    /\ InitGnome /\ InitYakuake /\ InitParse /\ InitTime /\ InitShell
    /\ AppIdle({NoSettings}) /\ IdleBuild /\ IdleLauncher /\ IdleSettings /\ IdleEscape /\ IdleCli

NextGnome ==
    \/ GBegin
    \/ GnomeSteps
    \/ GEnd

SpecGnome == InitLaunchers /\ [][NextGnome]_vars

FairSpecGnome == SpecGnome /\ WF_vars(NextGnome)

NextYakuake ==
    \/ YBegin
    \/ YakuakeSteps
    \/ YEnd

SpecYakuake == InitLaunchers /\ [][NextYakuake]_vars

NextParse ==
    \/ PParse

InitParseSpec ==
    /\ InitGnome /\ InitYakuake /\ InitReplies /\ InitTime /\ InitShell
    /\ AppIdle({NoSettings}) /\ IdleBuild /\ IdleLauncher /\ IdleSettings /\ IdleEscape /\ IdleCli

SpecParse == InitParseSpec /\ [][NextParse]_vars

\* The script of one call: the temp file is created, the text is built and
\* written (or the call fails before), for all the inputs of the model.
InitBuildSpec ==
    /\ InitGnome /\ InitYakuake /\ InitParse /\ InitTime /\ InitShell
    /\ AppIdle({NoSettings}) /\ InitBuild(AllInputs)
    /\ IdleLauncher /\ IdleSettings /\ IdleEscape /\ IdleCli

NextBuild ==
    \/ ACreate
    \/ ABuild
    \/ AWrite
    \/ AExcept

SpecBuild == InitBuildSpec /\ [][NextBuild]_vars

\* Every launcher class on its own: one object is built and called.
InitLaunchersSpec ==
    /\ InitGnome /\ InitYakuake /\ InitParse /\ InitTime /\ InitShell
    /\ AppIdle({NoSettings}) /\ IdleBuild /\ InitLauncher /\ IdleSettings /\ IdleEscape /\ IdleCli

LGnome == lself.command = "gnome-terminal" /\ NextGnome

LYakuake == lself.command = "yakuake" /\ NextYakuake

NextLaunchers ==
    \/ LCall
    \/ LGnome
    \/ LYakuake

SpecLaunchers == InitLaunchersSpec /\ [][NextLaunchers]_vars

\* One Settings object: make_identifier and set_actions in any order.
InitSettingsSpec ==
    /\ InitGnome /\ InitYakuake /\ InitParse /\ InitTime /\ InitShell
    /\ gself.args = GnomeInitArgs("/tmp/tmpk3q9")
    /\ AppIdle({NoSettings}) /\ IdleBuild /\ IdleLauncher /\ InitSettings /\ IdleEscape /\ IdleCli

NextSettings ==
    \/ SMakeIdentifier
    \/ SSetActions

SpecSettings == InitSettingsSpec /\ [][NextSettings]_vars

\* One Settings object: the actions are written and read, the banner is
\* assigned, in any order.
NextActions ==
    \/ SSetActions
    \/ SGetActions
    \/ SSetBanner

SpecActions == InitSettingsSpec /\ [][NextActions]_vars

\* The escaping of one text and its way back, and the read of the text
\* followed by the write.
InitEscapeSpec ==
    /\ InitGnome /\ InitYakuake /\ InitParse /\ InitTime /\ InitShell
    /\ gself.args = GnomeInitArgs("/tmp/tmpk3q9")
    /\ AppIdle({NoSettings}) /\ IdleBuild /\ IdleLauncher /\ IdleSettings
    /\ InitEscape /\ IdleCli

NextEscape ==
    \/ EEscape
    \/ EUnescape
    \/ ELoad
    \/ EExport

SpecEscape == InitEscapeSpec /\ [][NextEscape]_vars

\* One run of the command: parse_args, then main() goes on.
InitCliSpec ==
    /\ InitGnome /\ InitYakuake /\ InitParse /\ InitTime /\ InitShell
    /\ gself.args = GnomeInitArgs("/tmp/tmpk3q9")
    /\ AppIdle({NoSettings}) /\ IdleBuild /\ IdleLauncher /\ IdleSettings
    /\ IdleEscape /\ InitCli

NextCli ==
    \/ CParse
    \/ CMain

SpecCli == InitCliSpec /\ [][NextCli]_vars

----------------------------------------------------------------------------
\* Properties of GnomeTerminalLauncher.

HelperSpawns == { i \in 1..Len(gspawns) : gspawns[i].argv[1] # "gnome-terminal" }

TerminalSpawns == { i \in 1..Len(gspawns) : gspawns[i].argv[1] = "gnome-terminal" }

HelperStarted == \E i \in HelperSpawns : gspawns[i].ok

\* C1: when the first NameHasOwner query reports an owner, registration
\* ends Registered, no helper is spawned and the poll loop is not entered
\* (no sleep, no poll).
C1_OwnedAtFirstQuery ==
    gq.first.data \in OwnedReplies =>
        /\ greg = "Registered"
        /\ HelperSpawns = {}
        /\ polls = 0
        /\ sleeps = 0
        /\ gpc \in {"launch", "done", "idle"}

C1_Witness ==
    /\ gpc = "done"
    /\ gq.first.data \in OwnedReplies
    /\ gexc = "none"
    /\ Len(gspawns) = 1

\* C2: when the name has no owner and the helper exists at none of the
\* well-known paths, registration fails with OSError, no helper is
\* spawned, and gnome-terminal is launched with '--class' in the place of
\* '--app-id' and the other arguments as stored.
C2_NoHelperClassFallback ==
    ( /\ gpc = "done"
      /\ gq.first.data \in FreeReplies
      /\ \A i \in 1..Len(search_paths) : search_paths[i] \notin genv.existing )
    =>
        /\ greg = "OSError"
        /\ HelperSpawns = {}
        /\ Len(gspawns) = 1
        /\ gself.args[1] = "--app-id"
        /\ gspawns[1].argv = <<"gnome-terminal", "--class">> \o Tail(gself.args)

C2_Witness ==
    /\ gpc = "done"
    /\ gq.first.data \in FreeReplies
    /\ genv.existing = {}
    /\ gspawns[1].ok
    /\ gexc = "none"

\* C3: registration terminates.  With a helper started and a bus that
\* answers "no owner" to every query, there are at most TimeoutTicks + 1
\* polls, the loop is left only by the timeout, only once the deadline has
\* passed, and the terminal is then launched with '--class'; and whenever
\* the poll loop is entered, the call comes to its end.
C3_PollLoopTerminates ==
    /\ []( (HelperStarted /\ gq.allFree) =>
            /\ polls <= TimeoutTicks + 1
            /\ gpc \in {"fallback", "launch", "done", "idle"} =>
                  (greg = "TimeoutError" /\ clock > deadline)
            /\ gpc \in {"done", "idle"} =>
                  /\ Len(gspawns) = 2
                  /\ gspawns[2].argv =
                        <<"gnome-terminal", "--class">> \o Tail(gself.args) )
    /\ (gpc \in {"sleep", "poll", "check"}) ~> (gpc = "done")

C3_Witness ==
    /\ gpc = "done"
    /\ HelperStarted
    /\ gq.allFree
    /\ greg = "TimeoutError"
    /\ polls = TimeoutTicks + 1

\* C4: whatever the handshake comes to, no exception of the handshake
\* leaves the call and gnome-terminal is spawned exactly once.
C4_HandshakeNeverFatal ==
    gpc = "done" =>
        /\ gexc \notin {"CalledProcessError", "TimeoutError"}
        /\ Cardinality(TerminalSpawns) = 1

\* C5: a poll that reports an owner after the helper was started ends the
\* registration Registered and the terminal gets '--app-id'; and a
\* terminal is launched with '--app-id' exactly when registration ended
\* Registered (with '--class' otherwise).
C5_AppIdIffRegistered ==
    /\ (HelperStarted /\ polls >= 1 /\ gq.last.data \in OwnedReplies) =>
            /\ greg = "Registered"
            /\ gpc \in {"launch", "done", "idle"}
    /\ \A i \in TerminalSpawns :
            /\ gspawns[i].argv[2] \in {"--app-id", "--class"}
            /\ gspawns[i].argv[2] = "--app-id" <=> greg = "Registered"
            /\ Tail(Tail(gspawns[i].argv)) = Tail(gself.args)

C5_Witness ==
    /\ gpc = "done"
    /\ HelperStarted
    /\ polls >= 2
    /\ gq.last.data \in OwnedReplies
    /\ greg = "Registered"
    /\ gspawns[Len(gspawns)].argv[2] = "--app-id"

----------------------------------------------------------------------------
\* Properties of YakuakeLauncher.

Methods == [i \in 1..Len(ycalls) |-> ycalls[i].m]

CallsOf(m) == { i \in 1..Len(ycalls) : ycalls[i].m = m }

\* The calls come in the fixed order.
FixedOrder ==
    \A i \in 1..Len(ycalls) :
        /\ i = 1 => ycalls[i].m = "addSession"
        /\ i = 2 => ycalls[i].m = "runCommandInTerminal"
        /\ i = 3 => ycalls[i].m = "setTabTitle"
        /\ i = 4 => ycalls[i].m = "isVisible"
        /\ i >= 5 => ycalls[i].m \in {"hide", "isVisible", "toggleWindowState"}
        /\ (i >= 5 /\ ycalls[i].m = "hide") => i = 5
        /\ ycalls[i].m = "toggleWindowState" => i = Len(ycalls)
        /\ ycalls[i].m = "runCommandInTerminal" =>
                ycalls[i].arg = <<ysession, SourceCommand(yself.script_path)>>

C7_IsVisible ==
    yvis.ret # "none" =>
        LET o == yvis.out IN
        /\ (o.kind = "CalledProcessError" /\ o.err = StderrNoMainWindow)
                => yvis.ret = "False"
        /\ (o.kind # "ok"
              /\ ~(o.kind = "CalledProcessError" /\ o.err = StderrNoMainWindow))
                => /\ yvis.ret = "raise"
                   /\ ypc \in {"done", "idle"}
                   /\ yexc = o.kind
                   /\ ycalls[Len(ycalls)].m = "isVisible"
        /\ o.kind = "ok" =>
                /\ yvis.ret \in {"True", "False"}
                /\ yvis.ret = "True" <=> o.out = ReplyVisible

C7_Witness ==
    /\ yvis.out.kind = "CalledProcessError"
    /\ yvis.out.err = StderrNoMainWindow
    /\ yvis.ret = "False"
    /\ ypc = "toggle"

\* C8 as stated: after "not visible" exactly one toggleWindowState and no
\* hide; after "visible" a hide and a toggleWindowState after it.
C8_HideThenToggle ==
    (ypc = "done" /\ Len(ycalls) >= 4 /\ ycalls[4].st # "error") =>
        /\ ycalls[4].arg = <<"False">> =>
                /\ Cardinality(CallsOf("toggleWindowState")) = 1
                /\ CallsOf("hide") = {}
        /\ ycalls[4].arg = <<"True">> =>
                /\ CallsOf("hide") = {5}
                /\ \E i \in CallsOf("toggleWindowState") : i > 5

\* C8 amended: after "not visible" exactly one toggleWindowState and no
\* hide; after "visible" the hide call comes first, and toggleWindowState
\* is called (once, as the last call) exactly when the hide call
\* succeeded and a later visibility query answered "not visible".
C8_HideThenToggleOnceClosed ==
    (ypc = "done" /\ Len(ycalls) >= 4 /\ ycalls[4].st # "error") =>
        /\ ycalls[4].arg = <<"False">> =>
                /\ CallsOf("toggleWindowState") = {5}
                /\ Len(ycalls) = 5
                /\ CallsOf("hide") = {}
        /\ ycalls[4].arg = <<"True">> =>
                /\ CallsOf("hide") = {5}
                /\ Cardinality(CallsOf("toggleWindowState")) <= 1
                /\ CallsOf("toggleWindowState") \subseteq {Len(ycalls)}
                /\ CallsOf("toggleWindowState") # {} <=>
                      /\ ycalls[5].st = "ok"
                      /\ \E j \in CallsOf("isVisible") :
                            j > 5 /\ ycalls[j].arg = <<"False">>

C8_Witness ==
    /\ ypc = "done"
    /\ Len(ycalls) >= 9
    /\ ycalls[4].arg = <<"True">>
    /\ ycalls[5].m = "hide"
    /\ ycalls[Len(ycalls)].m = "toggleWindowState"
    /\ yret = "EX_OK"

----------------------------------------------------------------------------
\* Properties of parse_session_id.

\* A typed integer starts at position p: int16, int32 or int64, one
\* space, a digit.
TypedIntAt(s, p) ==
    /\ p + 6 <= Len(s)
    /\ SubSeq(s, p, p + 2) = <<"i", "n", "t">>
    /\ SubSeq(s, p + 3, p + 4) \in {<<"1", "6">>, <<"3", "2">>, <<"6", "4">>}
    /\ s[p + 5] = " "
    /\ s[p + 6] \in Digits

RECURSIVE Pow10(_)
Pow10(n) == IF n = 0 THEN 1 ELSE 10 * Pow10(n - 1)

RECURSIVE Decimal(_, _, _)
\* The number written in decimal at positions a..b of s.
Decimal(s, a, b) ==
    IF a > b THEN 0 ELSE DigitVal(s[a]) * Pow10(b - a) + Decimal(s, a + 1, b)

\* C9: parse_session_id returns the decimal integer of the first typed
\* integer of the reply (int16, int32 or int64, one space, all the digits
\* that follow), b'int32 42' giving 42, and raises RuntimeError for a
\* reply without a typed integer.
C9_ParseSessionId ==
    pres # Unparsed =>
        LET s == preply
            hits == { p \in 1..Len(s) : TypedIntAt(s, p) }
        IN  IF hits = {}
            THEN pres.exc = "RuntimeError"
            ELSE LET p == CHOOSE q \in hits : \A r \in hits : q <= r
                     e == CHOOSE k \in (p + 6)..Len(s) :
                            /\ \A i \in (p + 6)..k : s[i] \in Digits
                            /\ k = Len(s) \/ s[k + 1] \notin Digits
                 IN  /\ pres.exc = "none"
                     /\ pres.val = Decimal(s, p + 6, e)
                     /\ s = <<"i", "n", "t", "3", "2", " ", "4", "2">>
                            => pres.val = 42

C9_Witness ==
    /\ preply = <<"i", "n", "t", "3", "2", " ", "4", "2">>
    /\ pres = [exc |-> "none", val |-> 42]

----------------------------------------------------------------------------
\* Properties of EnvLauncherApp.

\* C10: when a step of the call raised, at the end of the call the temp
\* script file does not exist and the exception that leaves the call is
\* the exception of the failing step.
C10_CleanupAndReraise ==
    (apc = "done" /\ aerr # "none") =>
        /\ ~fileExists
        /\ araised = aerr

----------------------------------------------------------------------------
\* Properties of the temp script file and of its text.

\* C11: the coordinator never removes the temp script file while a shell
\* that was started on it has not finished reading it: a step of the
\* coordinator's cleanup that removes the file is taken only when no shell
\* is waiting to open the file or is sourcing it.
C11_NoCleanupUnderShell ==
    [][ (apc = "except" /\ fileExists /\ ~fileExists')
            => shell \notin {"pending", "sourcing"} ]_vars

RECURSIVE Sh(_, _, _, _, _, _, _)
\* How a POSIX shell splits a text into statements and words: a blank
\* ends a word, ';' and newline end a statement, '...' and "..." quote.
Sh(t, i, mode, word, inword, stmt, stmts) ==
    LET endWord == IF inword THEN Append(stmt, word) ELSE stmt
        endStmt == IF endWord # << >> THEN Append(stmts, endWord) ELSE stmts
    IN  IF i > Len(t)
        THEN [err |-> mode # "plain", stmts |-> endStmt]
        ELSE CASE mode = "plain" /\ t[i] = " " ->
                    Sh(t, i + 1, "plain", << >>, FALSE, endWord, stmts)
               [] mode = "plain" /\ t[i] \in {";", "\n"} ->
                    Sh(t, i + 1, "plain", << >>, FALSE, << >>, endStmt)
               [] mode = "plain" /\ t[i] = "'" ->
                    Sh(t, i + 1, "single", word, TRUE, stmt, stmts)
               [] mode = "plain" /\ t[i] = "\"" ->
                    Sh(t, i + 1, "double", word, TRUE, stmt, stmts)
               [] mode = "single" /\ t[i] = "'" ->
                    Sh(t, i + 1, "plain", word, TRUE, stmt, stmts)
               [] mode = "double" /\ t[i] = "\"" ->
                    Sh(t, i + 1, "plain", word, TRUE, stmt, stmts)
               [] OTHER ->
                    Sh(t, i + 1, mode, Append(word, t[i]), TRUE, stmt, stmts)

ShellParse(t) == Sh(t, 1, "plain", << >>, FALSE, << >>, << >>)

RECURSIVE SplitLines(_, _)
SplitLines(t, cur) ==
    IF t = << >> THEN <<cur>>
    ELSE IF Head(t) = "\n" THEN <<cur>> \o SplitLines(Tail(t), << >>)
    ELSE SplitLines(Tail(t), Append(cur, Head(t)))

NonEmptyLines == SelectSeq(SplitLines(script, << >>), LAMBDA l : l # << >>)

\* The commands of the statements the script is to have, in order.
ExpectedCommands ==
    (IF binput.working_dir # << >> THEN <<"cd">> ELSE << >>)
        \o (IF binput.rcfile # << >> THEN <<"source">> ELSE << >>)
        \o <<"source">>
        \o (IF binput.banner.configured THEN <<"cat">> ELSE << >>)
        \o <<"rm">>

\* C12: the script has one line per statement in the order cd (only with
\* a working directory), source rc-file (only when configured), source
\* activation script, cat banner (only when configured), rm of the script,
\* and ends with a newline; with nothing optional it is exactly the
\* activation line and the removal line.
C12_StatementOrder ==
    script # << >> =>
        /\ Len(NonEmptyLines) = Len(ExpectedCommands)
        /\ \A i \in 1..Len(NonEmptyLines) :
                i <= Len(ExpectedCommands) =>
                    NonEmptyLines[i][1] = ExpectedCommands[i]
        /\ script[Len(script)] = "\n"
        /\ binput \in PlainInputs =>
                script = Line("source", binput.environment) \o <<"\n">>
                            \o NonEmptyLines[Len(NonEmptyLines)] \o <<"\n">>

\* C13: the last non-empty line of the script is the removal of the
\* script's own file: a shell reads it as the one statement `rm` with one
\* operand, the path of the temp file the text is written to.
C13_SelfRemovalLast ==
    script # << >> =>
        ShellParse(NonEmptyLines[Len(NonEmptyLines)])
            = [err |-> FALSE,
               stmts |-> << << <<"rm">>, PathAtoms(rcfile) >> >>]

C13_Witness ==
    /\ apc = "resolve"
    /\ rcfile = "/tmp/my dir/rc"
    /\ binput.working_dir # << >>
    /\ binput.banner.configured

\* The paths the call inserts into the script, each with its command.
InsertedPaths ==
    (IF binput.working_dir # << >>
        THEN {<< <<"cd">>, binput.working_dir[1] >>} ELSE {})
    \cup (IF binput.rcfile # << >>
            THEN {<< <<"source">>, binput.rcfile >>} ELSE {})
    \cup {<< <<"source">>, binput.environment >>}
    \cup (IF binput.banner.configured
            THEN {<< <<"cat">>, binput.banner.path >>} ELSE {})
    \cup {<< <<"rm">>, PathAtoms(rcfile) >>}

\* C14: every path inserted into the script is shell-quoted: a shell reads
\* the script without error, each inserted path is the single operand of
\* its statement, and the script has no statement beyond one per line.
C14_PathsQuoted ==
    script # << >> =>
        LET parsed == ShellParse(script) IN
            /\ ~parsed.err
            /\ Len(parsed.stmts) = Len(NonEmptyLines)
            /\ \A ins \in InsertedPaths :
                    \E k \in 1..Len(parsed.stmts) : parsed.stmts[k] = ins

----------------------------------------------------------------------------
\* Properties of the choice of the launcher.

Available == { asettings.choices[i] : i \in 1..Len(asettings.choices) }

\* The available emulator that comes first in the preference order.
FirstAvailable ==
    supported[CHOOSE i \in 1..Len(supported) :
                /\ supported[i] \in Available
                /\ \A j \in 1..(i - 1) : supported[j] \notin Available]

Resolved ==
    IF asettings.value \in Available THEN asettings.value ELSE FirstAvailable

\* C15: with an emulator available, Settings.terminal_emulator is the
\* configured value when that is among the available emulators, and
\* otherwise the available emulator that is first in the preference
\* order; the launcher the call goes on with is the one of that emulator.
C15_RegistryResolve ==
    Available # {} =>
        /\ terminal_emulator(asettings) = Resolved
        /\ apc \in {"invoke", "running"} =>
                afunc = get_launcher(Resolved, rcfile)

C15_Witness ==
    /\ apc = "invoke"
    /\ asettings.value = "nonexistent-term"
    /\ asettings.choices = <<"gnome-terminal", "xterm">>
    /\ afunc.kind = "GnomeTerminalLauncher"

\* C16: with no supported emulator available the resolution is None, no
\* process is spawned, no bus call is made, and the call ends with an
\* exception.
C16_NoEmulatorIsAnError ==
    asettings.choices = << >> =>
        /\ terminal_emulator(asettings) = "None"
        /\ aspawns = << >>
        /\ gspawns = << >>
        /\ gq = NoQueries
        /\ ycalls = << >>
        /\ shell = "none"
        /\ apc = "done" => araised # "none"

C16_Witness ==
    /\ apc = "done"
    /\ asettings.choices = << >>
    /\ aerr = "Exception"
    /\ araised = "Exception"
    /\ rcfile # "unbound"
    /\ ~fileExists

\* The launcher variants that were invoked during the call.
Invoked ==
    (IF aspawns # << >> THEN {"Popen"} ELSE {})
    \cup (IF gq # NoQueries \/ gspawns # << >> THEN {"GnomeTerminalLauncher"} ELSE {})
    \cup (IF ycalls # << >> THEN {"YakuakeLauncher"} ELSE {})

\* C17: during one call at most one launcher variant is invoked, and it is
\* invoked at most once: at most one terminal process is spawned or one
\* tab is asked for, also after a failure.
C17_OneLauncherOnce ==
    /\ Cardinality(Invoked) <= 1
    /\ Len(aspawns) + Cardinality(TerminalSpawns)
         + Cardinality({ i \in 1..Len(ycalls) : ycalls[i].m = "addSession" }) <= 1

C17_Witness ==
    /\ apc = "done"
    /\ araised = "OSError"
    /\ Len(aspawns) = 1
    /\ ~aspawns[1].ok

----------------------------------------------------------------------------
\* Properties of the launcher classes.

\* The script path the launcher objects were built on.
LPath == gself.args[Len(gself.args)]

\* The text ends with the path as given, as a word of its own.
EndsWithPath(text, p) ==
    /\ Len(text) >= Len(p)
    /\ SubSeq(text, Len(text) - Len(p) + 1, Len(text)) = p
    /\ Len(text) > Len(p) => text[Len(text) - Len(p)] = " "

\* A shell reads the text without error and the last word of its last
\* statement is the path.
ShellReadsPath(text, p) ==
    LET parsed == ShellParse(text) IN
        /\ ~parsed.err
        /\ parsed.stmts # << >>
        /\ LET last == parsed.stmts[Len(parsed.stmts)] IN last[Len(last)] = p

\* C18 as stated: the argument vector of every spawned process holds the
\* script path exactly as given, not re-quoted.
C18_ExactPathInArgv ==
    /\ lspawn # NoSpawn =>
            \E i \in 1..Len(lspawn.argv) :
                EndsWithPath(lspawn.argv[i], PathAtoms(LPath))
    /\ \A i \in TerminalSpawns :
            \E k \in 1..Len(gspawns[i].argv) : gspawns[i].argv[k] = LPath
    /\ \A i \in 1..Len(ycalls) :
            ycalls[i].m = "runCommandInTerminal" =>
                EndsWithPath(ycalls[i].arg[2], PathAtoms(yself.script_path))

\* The classes that hand the path over inside a command string.
CommandStringCommands == {"guake", "mate-terminal", "qterminal"}

\* C18, amended: the argument vector holds the script path as one argument
\* equal to the path, except for guake, mate-terminal, qterminal and
\* yakuake, whose last argument is a command string that ends with the
\* path in shlex.quote form: a shell reads the exact path back from it.
C18_PathArgOrQuotedInCommand ==
    /\ lspawn # NoSpawn =>
            IF lself.command \in CommandStringCommands
            THEN ShellReadsPath(lspawn.argv[Len(lspawn.argv)], PathAtoms(LPath))
            ELSE lspawn.argv[Len(lspawn.argv)] = PathAtoms(LPath)
    /\ \A i \in TerminalSpawns :
            gspawns[i].argv[Len(gspawns[i].argv)] = LPath
    /\ \A i \in 1..Len(ycalls) :
            ycalls[i].m = "runCommandInTerminal" =>
                ShellReadsPath(ycalls[i].arg[2], PathAtoms(yself.script_path))

C18_Witness ==
    /\ lself.command = "qterminal"
    /\ lspawn # NoSpawn
    /\ lspawn.ok
    /\ LPath = "/tmp/my dir/rc"

\* C19: the value a launcher returns tells the real outcome of what it
\* spawned: YakuakeLauncher returns the success status only when every
\* dbus-send process of the call ended with success.
C19_RealExitStatus ==
    (ypc = "done" /\ yret = "EX_OK") =>
        \A i \in 1..Len(ycalls) : ycalls[i].st = "ok"

----------------------------------------------------------------------------
\* Properties of Settings.make_identifier.

Listed(id) == \E i \in 1..Len(sactions) : sactions[i] = id

\* C20: every identifier make_identifier returns is venv<n> with n >= 1,
\* is not a listed identifier of the Actions value, is the candidate of
\* the smallest counter value not yet consumed whose identifier is not
\* listed, and was not returned before; the counter only increases.
C20_MakeIdentifier ==
    [][ sreturned' # sreturned =>
            LET id == sreturned'[Len(sreturned')] IN
                /\ sreturned' = Append(sreturned, id)
                /\ id.prefix = "venv"
                /\ id.num >= 1
                /\ ~Listed(id)
                /\ id.num >= snumber
                /\ \A k \in snumber..(id.num - 1) :
                        Listed([prefix |-> "venv", num |-> k])
                /\ \A j \in 1..Len(sreturned) : sreturned[j] # id
                /\ snumber' = id.num + 1 ]_vars

C20_Witness ==
    /\ Len(sreturned) = 2
    /\ sreturned[1].num = 1
    /\ sreturned[2].num = 3
    /\ Listed([prefix |-> "venv", num |-> 2])

\* C25: dispatch is total over the registry: get_launcher gives a launcher
\* for every supported emulator name without raising, so a call that has an
\* emulator available never ends its resolution with the exception of a
\* launcher that is missing from the launchers module or of an unknown name.
C25_DispatchTotal ==
    (asettings.choices # << >> /\ apc \in {"invoke", "running", "except", "done"})
        => /\ aerr \notin {"AttributeError", "Exception"}
           /\ aerr = "none" =>
                get_launcher(terminal_emulator(asettings), rcfile).exc = "none"

\* C26: once the helper is spawned, the timeout is raised only after at
\* least one ownership query of the poll loop, and every poll comes right
\* after one sleep of (at least) 1/32 second: the sleeps and the polls
\* alternate, a sleep first.
C26_PollBeforeTimeout ==
    /\ greg = "TimeoutError" =>
            /\ HelperStarted
            /\ polls >= 1
            /\ clock > deadline
    /\ polls > 0 \/ sleeps > 0 => HelperStarted
    /\ sleeps = IF gpc = "poll" THEN polls + 1 ELSE polls
    /\ clock >= sleeps * SleepTicks

C26_Witness ==
    /\ greg = "TimeoutError"
    /\ gpc = "fallback"
    /\ polls = sleeps
    /\ polls >= 2
    /\ clock = deadline + 1

\* C27: no step of a call changes the argument list stored in the launcher
\* object (self.args), the fallback included; every call starts from the
\* stored list with '--app-id', and the flag it launches with is '--class'
\* exactly when the registration of that same call raised OSError or
\* TimeoutError.
C27_StoredArgsUnchanged ==
    [][ /\ gself' = gself
        /\ gpc' = "query0" =>
                /\ gargs' = gself.args
                /\ greg' = "none"
        /\ (gpc = "launch" /\ gpc' = "done") =>
                LET argv == gspawns'[Len(gspawns')].argv IN
                /\ argv[2] \in {"--app-id", "--class"}
                /\ argv[2] = "--class" <=> greg \in {"OSError", "TimeoutError"}
                /\ Tail(Tail(argv)) = Tail(gself.args) ]_vars

C27_Witness ==
    /\ gpc = "done"
    /\ greg = "TimeoutError"
    /\ gargs[1] = "--class"
    /\ gself.args[1] = "--app-id"
    /\ gspawns[Len(gspawns)].argv[2] = "--class"

\* C28: once the hide call was issued, toggleWindowState is issued only
\* right after a visibility query that answered "not visible"; the wait
\* goes on only while the second has not passed, and when the window was
\* reported visible and the second has passed the call ends with
\* TimeoutError, without a toggleWindowState call and without a return
\* value.
C28_ToggleOnlyAfterClosed ==
    CallsOf("hide") # {} =>
        LET hide == CHOOSE i \in CallsOf("hide") : TRUE IN
        /\ CallsOf("hide") = {hide}
        /\ \A i \in CallsOf("toggleWindowState") :
                /\ i = Len(ycalls)
                /\ i - 1 > hide
                /\ ycalls[hide].st = "ok"
                /\ ycalls[i - 1].m = "isVisible"
                /\ ycalls[i - 1].arg = <<"False">>
        /\ ypc = "waitClosed" => clock <= deadline
        /\ yexc = "TimeoutError" <=>
                /\ ypc \in {"done", "idle"}
                /\ clock > deadline
        /\ yexc = "TimeoutError" =>
                /\ CallsOf("toggleWindowState") = {}
                /\ yret = "none"
                /\ Len(ycalls) > hide
                /\ ycalls[Len(ycalls)].m = "isVisible"
                /\ ycalls[Len(ycalls)].arg = <<"True">>

C28_Witness ==
    /\ ypc = "done"
    /\ yexc = "TimeoutError"
    /\ CallsOf("hide") = {5}
    /\ CallsOf("toggleWindowState") = {}
    /\ clock = deadline + 1
    /\ Len(ycalls) >= 7

----------------------------------------------------------------------------
\* Properties of the Settings object.

NonVenv(seq) == SelectSeq(seq, LAMBDA x : ~StartsWithVenv(x))

VenvGroups(groups) == { i \in 1..Len(groups) : StartsWithVenv(groups[i].id) }

OtherGroups(groups) == SelectSeq(groups, LAMBDA g : ~StartsWithVenv(g.id))

\* The last action of the list that has the identifier.
LastGiven(given, id) ==
    given[CHOOSE i \in 1..Len(given) :
            /\ given[i].id = id
            /\ \A j \in (i + 1)..Len(given) : given[j].id # id]

\* C21: a set_actions call that returns leaves exactly the venv groups of
\* the given list (one group for each given identifier, with the stripped
\* name and the Exec line of its action), makes the Actions value the given
\* identifiers in list order followed by the identifiers without the venv
\* prefix that were listed before, in their order, and leaves the other
\* groups as they were; the Actions key exists afterwards.
C21_SetActionsFrame ==
    [][ (sop' = "set_actions" /\ serr' = "none") =>
            /\ { sgroups'[i].id : i \in VenvGroups(sgroups') }
                    = { sgiven'[i].id : i \in 1..Len(sgiven') }
            /\ \A i, j \in VenvGroups(sgroups') :
                    sgroups'[i].id = sgroups'[j].id => i = j
            /\ \A i \in VenvGroups(sgroups') :
                    LET a == LastGiven(sgiven', sgroups'[i].id) IN
                    /\ sgroups'[i].name = <<Strip(a.name)>>
                    /\ sgroups'[i].exec = <<ExecValue(a.activate, a.directory)>>
            /\ skey'
            /\ sactions' = [i \in 1..Len(sgiven') |-> sgiven'[i].id]
                                \o NonVenv(sactions)
            /\ OtherGroups(sgroups') = OtherGroups(sgroups) ]_vars

C21_Witness ==
    /\ sop = "set_actions"
    /\ serr = "none"
    /\ Len(sgiven) = 2
    /\ sgiven[1].id = VenvId(2)
    /\ sgiven[2].id = VenvId(1)
    /\ sactions = <<VenvId(2), VenvId(1)>>
    /\ sgroups[1] = ConfigureGroup
    /\ sgroups[2].name = << <<"My Project">> >>

\* The venv groups get_actions can read: both keys, no single percent
\* sign in them.
Readable(g) ==
    /\ g.name # << >>
    /\ g.exec # << >>
    /\ ~HasLonePercent(g.name[1])
    /\ ~HasLonePercent(g.exec[1])

\* The first place of an identifier in the Actions value.
FirstListed(id) ==
    CHOOSE i \in 1..Len(sactions) :
        sactions[i] = id /\ \A j \in 1..(i - 1) : sactions[j] # id

\* C22: a get_actions call returns, for the venv identifiers of the
\* Actions value that have a group with an Exec line of the launcher form,
\* the action of that group (identifier, name, activate path, directory),
\* once each and in the order of the Actions value; identifiers without a
\* group, identifiers without the venv prefix and groups with another Exec
\* line are skipped without an exception, and without the Actions key the
\* list is empty.
C22_GetActions ==
    (sop = "get_actions"
        /\ \A i \in VenvGroups(sgroups) : Readable(sgroups[i])) =>
        /\ serr = "none"
        /\ ~skey => sgot = << >>
        /\ \A i \in 1..Len(sgot) :
                LET at == GroupAt(sgroups, sgot[i].id) IN
                /\ StartsWithVenv(sgot[i].id)
                /\ Listed(sgot[i].id)
                /\ at # 0
                /\ sgot[i].name = Interpolate(sgroups[at].name[1])
                /\ sgot[i].activate # << >>
                /\ sgot[i].directory # << >>
                /\ ExecValue(sgot[i].activate, sgot[i].directory)
                        = Interpolate(sgroups[at].exec[1])
        /\ \A i, j \in 1..Len(sgot) :
                i < j => FirstListed(sgot[i].id) < FirstListed(sgot[j].id)
        /\ \A k \in VenvGroups(sgroups) :
                (Listed(sgroups[k].id) /\ Matches(Interpolate(sgroups[k].exec[1])))
                    => \E i \in 1..Len(sgot) : sgot[i].id = sgroups[k].id

C22_Witness ==
    /\ sop = "get_actions"
    /\ serr = "none"
    /\ sactions = <<VenvId(1), VenvId(2), Configure>>
    /\ sgroups = <<FileGroup(2), FileGroup(1), ConfigureGroup>>
    /\ Len(sgot) = 2
    /\ sgot[1].id = VenvId(1)
    /\ sgot[2].id = VenvId(2)

\* C29: whenever a Settings object exists, its banner value is 'color',
\* 'plain' or 'none', and banner_resource is None exactly when the banner
\* value is 'none'.
C29_BannerInvariant ==
    /\ sbanner \in {"color", "plain", "none"}
    /\ banner_resource(sbanner) = << >> <=> sbanner = "none"

\* The lists the round trip is stated for: distinct identifiers with the
\* venv prefix, names without blanks around them, non-empty paths.
RoundTripList(actions) ==
    /\ \A i, j \in 1..Len(actions) : actions[i].id = actions[j].id => i = j
    /\ \A i \in 1..Len(actions) :
            /\ StartsWithVenv(actions[i].id)
            /\ Strip(actions[i].name) = actions[i].name
            /\ actions[i].activate # << >>
            /\ actions[i].directory # << >>

\* C30: right after set_actions with such a list, the call has returned
\* and get_actions returns that same list in the same order.
C30_RoundTrip ==
    (sop = "set_actions" /\ RoundTripList(sgiven)) =>
        /\ serr = "none"
        /\ get_actions(sgroups, sactions).exc = "none"
        /\ get_actions(sgroups, sactions).ret = sgiven

----------------------------------------------------------------------------
\* Properties of the comment escaping and of parse_args.

IsComment(line) == StartsWith(line, "#")

IsHeader(line) == StartsWith(line, "[")

IsEntry(line) ==
    line # EmptyLine /\ line[1].kind = "text" /\ ~IsComment(line) /\ ~IsHeader(line)

\* A desktop-entry text: blank lines, comments, group headers and entries.
DesktopEntryText(lines) ==
    \A i \in 1..Len(lines) :
        lines[i] = EmptyLine \/ IsComment(lines[i]) \/ IsHeader(lines[i])
            \/ IsEntry(lines[i])

\* A desktop entry file: such a text in which every entry is in a group,
\* no group comes twice, no group has an entry twice, and which starts
\* with a line that is not blank and ends with one newline.
DesktopEntryFile(lines) ==
    /\ DesktopEntryText(lines)
    /\ Len(lines) >= 2
    /\ lines[1] # EmptyLine
    /\ lines[Len(lines)] = EmptyLine
    /\ lines[Len(lines) - 1] # EmptyLine
    /\ \E i \in 1..Len(lines) : IsHeader(lines[i])
    /\ \A i \in 1..Len(lines) :
            IsEntry(lines[i]) => \E h \in 1..(i - 1) : IsHeader(lines[h])
    /\ \A i, j \in 1..Len(lines) :
            (i < j /\ lines[i] = lines[j] /\ IsHeader(lines[i])) => FALSE
    /\ \A i, j \in 1..Len(lines) :
            (i < j /\ lines[i] = lines[j] /\ IsEntry(lines[i]))
                => \E h \in (i + 1)..(j - 1) : IsHeader(lines[h])

CommentsOf(lines) == SelectSeq(lines, IsComment)

BlankLinesOf(lines) == Len(SelectSeq(lines, LAMBDA l : l = EmptyLine))

\* On a desktop-entry text the escaping is undone by the unescaping.
EscapingRoundTrips ==
    (epc = "unescaped" /\ DesktopEntryText(etext)) => eback = etext

\* C23: the comment escaping round-trips on every desktop-entry text, so
\* that a desktop entry file is read without an exception and written with
\* its comment lines as they were, in their order, and with no blank line
\* lost.
C23_CommentsPreserved ==
    /\ EscapingRoundTrips
    /\ (epc \in {"loaded", "exported"} /\ DesktopEntryFile(etext)) =>
            eload.exc = "none"
    /\ (epc = "exported" /\ DesktopEntryFile(etext)) =>
            /\ CommentsOf(eout) = CommentsOf(etext)
            /\ BlankLinesOf(eout) >= BlankLinesOf(etext)

\* The configuration flag of the usage text: --configure for
\* envlauncher/cli.py (test_cli.py), --settings for envlauncher.py
\* (test_envlauncher.py).
UsageFlag ==
    ("envlauncher/cli.py" :> "--configure") @@ ("envlauncher.py" :> "--settings")

\* The usage forms: no argument; --activate SCRIPT [--directory PATH];
\* the configuration flag [--reset-all]; --version.
UsageForm(file, argv) ==
    \/ /\ argv.activate = << >> /\ argv.directory = << >>
       /\ argv.config = "none" /\ ~argv.reset_all /\ ~argv.version
    \/ /\ argv.activate # << >>
       /\ argv.config = "none" /\ ~argv.reset_all /\ ~argv.version
    \/ /\ argv.config = UsageFlag[file]
       /\ argv.activate = << >> /\ argv.directory = << >> /\ ~argv.version
    \/ /\ argv.version
       /\ argv.activate = << >> /\ argv.directory = << >>
       /\ argv.config = "none" /\ ~argv.reset_all

\* C24: parse_args returns for the usage forms and ends with an error
\* exit for every other combination of flags; the namespace it returns
\* has the attributes activate, directory, configure (settings for
\* envlauncher.py) and reset_all with the values given.
C24_UsageFormsOnly ==
    cpc \in {"parsed", "done"} =>
        /\ cexit = "none" <=> UsageForm(cfile, cargv)
        /\ cexit = "none" =>
                /\ {"activate", "directory", Dest(UsageFlag[cfile]), "reset_all"}
                        \subseteq cargs.names
                /\ cargs.activate = cargv.activate
                /\ cargs.directory = cargv.directory
                /\ cargs.config = (cargv.config = UsageFlag[cfile])
                /\ cargs.reset_all = cargv.reset_all

====
